---- MODULE Spec2Model ----
(***************************************************************************)
(* A model of the chess-lib rules engine: the Position value, the per-piece *)
(* move generator, the check detector, the legality filter, the move        *)
(* applier, the notation resolver and the FEN codec.                        *)
(*                                                                          *)
(* Text is modelled as a sequence of one-character strings, Option<T> as a  *)
(* sequence of length 0 (None) or 1 (Some), Vec<T> as a sequence, and a     *)
(* Result as a record with an "ok" field.                                   *)
(***************************************************************************)
EXTENDS Integers, Sequences, FiniteSets, TLC

VARIABLES
    game,        \* the current Game: its Position
    fen,         \* the FEN text the Game was constructed from
    history,     \* the successful make_move calls since construction: token and move applied
    last_result, \* "New" after construction, else "Ok" / "Err" of the last make_move
    pgn_text,    \* the text Game::new_from_pgn was called with
    lexer,       \* the Lexer: the text still to read, its line and column
    tokens,      \* the tokens Lexer::lex has pushed
    parser,      \* the Parser: its tokens, the next one last
    pgn_games,   \* the games Parser::parse has parsed
    games,       \* the results new_from_pgn has built, one per parsed game
    returned,    \* None while new_from_pgn runs, then Some(what it returned)
    pc,          \* where new_from_pgn is: "lex", "parse", "replay", "returned", "panic"
    square_notation \* the text Square::from_notation is called with

game_vars == <<game, fen, history, last_result>>

pgn_vars == <<pgn_text, lexer, tokens, parser, pgn_games, games, returned, pc>>

vars == <<game_vars, pgn_vars, square_notation>>

\* ---------------------------------------------------------------- bounds

\* Longest sequence of successful make_move calls explored from a start position.
MaxPlies == 3

\* Longest game explored from the standard position.
MaxGamePlies == 5

\* ---------------------------------------------------------------- models.rs

None == <<>>

Some(x) == <<x>>

is_some(o) == Len(o) = 1

unwrap(o) == o[1]

Pieces == {"Pawn", "Rook", "Bishop", "Knight", "Queen", "King"}

Colors == {"White", "Black"}

opposite(color) == IF color = "White" THEN "Black" ELSE "White"

FILE_LABELS == <<"a", "b", "c", "d", "e", "f", "g", "h">>

Square(rank, file) == [rank |-> rank, file |-> file]

OccupiedSquare(piece, color) == [piece |-> piece, color |-> color]

\* Square::new: an out-of-range rank or file gives None.
Square_new(rank, file) ==
    IF file < 0 \/ file > 7 THEN None
    ELSE IF rank < 0 \/ rank > 7 THEN None
    ELSE Some(Square(rank, file))

Digits == <<"0", "1", "2", "3", "4", "5", "6", "7", "8", "9">>

is_digit(c) == \E d \in 1..10 : Digits[d] = c

\* c as u8 - '0' as u8, for a decimal digit c
digit_value(c) == (CHOOSE d \in 1..10 : Digits[d] = c) - 1

LowerLetters == <<"a", "b", "c", "d", "e", "f", "g", "h", "i", "j", "k", "l", "m",
                  "n", "o", "p", "q", "r", "s", "t", "u", "v", "w", "x", "y", "z">>

UpperLetters == <<"A", "B", "C", "D", "E", "F", "G", "H", "I", "J", "K", "L", "M",
                  "N", "O", "P", "Q", "R", "S", "T", "U", "V", "W", "X", "Y", "Z">>

is_alphabetic(c) ==
    \E l \in 1..26 : LowerLetters[l] = c \/ UpperLetters[l] = c

\* file_label as u8 - 'a' as u8, for a lower-case letter
letter_index(c) == (CHOOSE l \in 1..26 : LowerLetters[l] = c) - 1

\* i64::to_string for a non-negative value
RECURSIVE to_string(_)
to_string(n) ==
    IF n < 10 THEN <<Digits[n + 1]>>
    ELSE to_string(n \div 10) \o <<Digits[(n % 10) + 1]>>

\* Square::from_notation on the first two characters of the text
Square_from_notation(notation) ==
    IF Len(notation) < 2 THEN [ok |-> FALSE]
    ELSE LET file_label == notation[1]
             rank_char  == notation[2]
         IN  IF ~(\E l \in 1..8 : LowerLetters[l] = file_label) THEN [ok |-> FALSE]
             ELSE IF ~is_digit(rank_char) THEN [ok |-> FALSE]
             ELSE LET file == letter_index(file_label)
                      rank == digit_value(rank_char) - 1
                  IN  IF rank < 1 \/ rank > 8 THEN [ok |-> FALSE]
                      ELSE [ok |-> TRUE, value |-> Square(rank, file)]

\* Square::to_notation
to_notation(square, options) ==
    LET file_label == FILE_LABELS[square.file + 1]
    IN  CASE options = "OnlyFile"    -> <<file_label>>
          [] options = "OnlyRank"    -> to_string(square.rank + 1)
          [] options = "FileAndRank" -> <<file_label>> \o to_string(square.rank + 1)

\* the board index of a square: (7 - rank) * 8 + file
index_of(square) == (7 - square.rank) * 8 + square.file

\* the square of a board index: rank 7 - i / 8, file i % 8
square_at(i) == Square(7 - (i \div 8), i % 8)

\* ---------------------------------------------------------------- game/mod.rs: move generation

ValidMove(color, from, to, piece, takes, takes_en_passant, en_passant_square) ==
    [color |-> color, from |-> from, to |-> to, piece |-> piece, takes |-> takes,
     takes_en_passant |-> takes_en_passant, en_passant_square |-> en_passant_square]

\* Game::square_occupied: Option<OccupiedSquare> (the board is 0-indexed in the code)
square_occupied(position, square) == position.board[index_of(square) + 1]

\* the home ranks counted from one instead of zero
can_pawn_double_move_one_based(square, side_to_move) ==
    \/ side_to_move = "White" /\ square.rank = 2
    \/ side_to_move = "Black" /\ square.rank = 7

\* the double step allowed from every rank
can_pawn_double_move_from_any_rank(square, side_to_move) == side_to_move \in {"White", "Black"}

\* Game::can_pawn_double_move
can_pawn_double_move(square, side_to_move) ==
    \/ side_to_move = "White" /\ square.rank = 1
    \/ side_to_move = "Black" /\ square.rank = 6

\* the Some values of a sequence of options, in order
RECURSIVE filter_some(_)
filter_some(options) ==
    IF options = <<>> THEN <<>>
    ELSE Head(options) \o filter_some(Tail(options))

possible_pawn_moves(position, from, color) ==
    LET direction == IF color = "White" THEN 1 ELSE -1
        next_square == Square_new(from.rank + direction, from.file)
        can_move_forward ==
            IF is_some(next_square)
            THEN square_occupied(position, unwrap(next_square)) = None
            ELSE FALSE
        forward_moves ==
            IF is_some(next_square) /\ can_move_forward
            THEN <<ValidMove(color, from, unwrap(next_square), "Pawn", None, FALSE, None)>>
            ELSE <<>>
        double_target == Square_new(from.rank + 2 * direction, from.file)
        double_move_square ==
            IF /\ is_some(double_target)
               /\ can_move_forward
               /\ can_pawn_double_move(from, color)
               /\ square_occupied(position, unwrap(double_target)) = None
            THEN double_target
            ELSE None
        double_moves ==
            IF is_some(double_move_square)
            THEN <<ValidMove(color, from, unwrap(double_move_square), "Pawn", None, FALSE,
                             next_square)>>
            ELSE <<>>
        take_squares == <<Square_new(from.rank + direction, from.file - 1),
                          Square_new(from.rank + direction, from.file + 1)>>
        take_move(square) ==
            IF ~is_some(square) THEN None
            ELSE LET to == unwrap(square)
                     found == square_occupied(position, to)
                     occupancy == IF is_some(found) /\ unwrap(found).color # color
                                  THEN found ELSE None
                 IN  IF ~is_some(occupancy) /\ is_some(position.en_passant_square)
                     THEN IF unwrap(position.en_passant_square) = to
                          THEN Some(ValidMove(color, from, to, "Pawn", Some("Pawn"), TRUE, None))
                          ELSE None
                     ELSE IF is_some(occupancy)
                     THEN Some(ValidMove(color, from, to, "Pawn",
                                         Some(unwrap(occupancy).piece), FALSE, None))
                     ELSE None
        take_moves == take_move(take_squares[1]) \o take_move(take_squares[2])
    IN  forward_moves \o double_moves \o take_moves

\* a move onto every reachable square, those that hold a piece of the mover included
RECURSIVE moves_onto_own_pieces(_, _, _, _, _)
moves_onto_own_pieces(position, reachable, piece, from, color) ==
    IF reachable = <<>> THEN <<>>
    ELSE LET to == Head(reachable)
             occupancy == square_occupied(position, to)
             here == <<ValidMove(color, from, to, piece,
                                 IF is_some(occupancy) THEN Some(unwrap(occupancy).piece)
                                 ELSE None,
                                 FALSE, None)>>
         IN  here \o moves_onto_own_pieces(position, Tail(reachable), piece, from, color)

\* the shared body of possible_knight_moves and possible_king_moves: a move onto
\* each reachable square that is empty or holds a piece of the other color
RECURSIVE moves_onto(_, _, _, _, _)
moves_onto(position, reachable, piece, from, color) ==
    IF reachable = <<>> THEN <<>>
    ELSE LET to == Head(reachable)
             occupancy == square_occupied(position, to)
             here == IF is_some(occupancy) /\ unwrap(occupancy).color = color
                     THEN <<>>
                     ELSE <<ValidMove(color, from, to, piece,
                                      IF is_some(occupancy) THEN Some(unwrap(occupancy).piece)
                                      ELSE None,
                                      FALSE, None)>>
         IN  here \o moves_onto(position, Tail(reachable), piece, from, color)

possible_knight_moves(position, from, color) ==
    LET reachable_squares ==
            <<Square_new(from.rank - 2, from.file - 1),
              Square_new(from.rank - 2, from.file + 1),
              Square_new(from.rank + 2, from.file - 1),
              Square_new(from.rank + 2, from.file + 1),
              Square_new(from.rank - 1, from.file - 2),
              Square_new(from.rank - 1, from.file + 2),
              Square_new(from.rank + 1, from.file - 2),
              Square_new(from.rank + 1, from.file + 2)>>
    IN  moves_onto(position, filter_some(reachable_squares), "Knight", from, color)

\* king-side castling generated as a king move of two files when the flag is set
\* and the two squares between king and rook are empty
possible_king_moves_with_castling(position, from, color) ==
    LET adjacent_squares ==
            <<Square_new(from.rank - 1, from.file - 1),
              Square_new(from.rank - 1, from.file),
              Square_new(from.rank - 1, from.file + 1),
              Square_new(from.rank, from.file - 1),
              Square_new(from.rank, from.file + 1),
              Square_new(from.rank + 1, from.file - 1),
              Square_new(from.rank + 1, from.file),
              Square_new(from.rank + 1, from.file + 1)>>
        may_castle == IF color = "White" THEN position.white_can_castle_king_side
                      ELSE position.black_can_castle_king_side
        castling_moves ==
            IF /\ may_castle
               /\ from.file = 4
               /\ square_occupied(position, Square(from.rank, 5)) = None
               /\ square_occupied(position, Square(from.rank, 6)) = None
            THEN <<ValidMove(color, from, Square(from.rank, 6), "King", None, FALSE, None)>>
            ELSE <<>>
    IN  moves_onto(position, filter_some(adjacent_squares), "King", from, color)
        \o castling_moves

\* Game::possible_king_moves
possible_king_moves(position, from, color) ==
    LET adjacent_squares ==
            <<Square_new(from.rank - 1, from.file - 1),
              Square_new(from.rank - 1, from.file),
              Square_new(from.rank - 1, from.file + 1),
              Square_new(from.rank, from.file - 1),
              Square_new(from.rank, from.file + 1),
              Square_new(from.rank + 1, from.file - 1),
              Square_new(from.rank + 1, from.file),
              Square_new(from.rank + 1, from.file + 1)>>
    IN  moves_onto(position, filter_some(adjacent_squares), "King", from, color)

advance_square(square, rank_delta, file_delta) ==
    Square_new(square.rank + rank_delta, square.file + file_delta)

RECURSIVE squares_from(_, _, _)
squares_from(current_square, rank_delta, file_delta) ==
    IF is_some(current_square)
    THEN current_square
         \o squares_from(advance_square(unwrap(current_square), rank_delta, file_delta),
                         rank_delta, file_delta)
    ELSE <<>>

squares_in_a_line(from, rank_delta, file_delta) ==
    squares_from(advance_square(from, rank_delta, file_delta), rank_delta, file_delta)

\* the ray carried on past a captured piece
RECURSIVE valid_moves_in_a_line_through_captures(_, _, _, _, _)
valid_moves_in_a_line_through_captures(position, line, piece, from, color) ==
    IF line = <<>> THEN <<>>
    ELSE LET to == Head(line)
             occupancy == square_occupied(position, to)
         IN  IF is_some(occupancy) /\ unwrap(occupancy).color = color THEN <<>>
             ELSE <<ValidMove(color, from, to, piece,
                              IF is_some(occupancy) THEN Some(unwrap(occupancy).piece)
                              ELSE None,
                              FALSE, None)>>
                  \o valid_moves_in_a_line_through_captures(position, Tail(line), piece,
                                                            from, color)

\* Game::valid_moves_in_a_line: the moves along one ray, nearest square first
RECURSIVE valid_moves_in_a_line(_, _, _, _, _)
valid_moves_in_a_line(position, line, piece, from, color) ==
    IF line = <<>> THEN <<>>
    ELSE LET to == Head(line)
             occupancy == square_occupied(position, to)
         IN  IF is_some(occupancy) /\ unwrap(occupancy).color # color
             THEN <<ValidMove(color, from, to, piece, Some(unwrap(occupancy).piece),
                              FALSE, None)>>
             ELSE IF is_some(occupancy) THEN <<>>
             ELSE <<ValidMove(color, from, to, piece, None, FALSE, None)>>
                  \o valid_moves_in_a_line(position, Tail(line), piece, from, color)

RookDirections == <<<<-1, 0>>, <<1, 0>>, <<0, -1>>, <<0, 1>>>>

BishopDirections == <<<<-1, -1>>, <<1, -1>>, <<1, 1>>, <<-1, 1>>>>

RECURSIVE moves_in_lines(_, _, _, _, _)
moves_in_lines(position, directions, piece, from, color) ==
    IF directions = <<>> THEN <<>>
    ELSE valid_moves_in_a_line(position,
                               squares_in_a_line(from, Head(directions)[1], Head(directions)[2]),
                               piece, from, color)
         \o moves_in_lines(position, Tail(directions), piece, from, color)

possible_rook_moves(position, from, color) ==
    moves_in_lines(position, RookDirections, "Rook", from, color)

possible_queen_moves(position, from, color) ==
    moves_in_lines(position, RookDirections \o BishopDirections, "Queen", from, color)

possible_bishop_moves(position, from, color) ==
    moves_in_lines(position, BishopDirections, "Bishop", from, color)

possible_moves_for_piece(position, piece, from, color) ==
    CASE piece = "Pawn"   -> possible_pawn_moves(position, from, color)
      [] piece = "Knight" -> possible_knight_moves(position, from, color)
      [] piece = "Rook"   -> possible_rook_moves(position, from, color)
      [] piece = "Bishop" -> possible_bishop_moves(position, from, color)
      [] piece = "Queen"  -> possible_queen_moves(position, from, color)
      [] piece = "King"   -> possible_king_moves(position, from, color)

\* ---------------------------------------------------------------- game/mod.rs: applying a move

\* the passed pawn looked for ahead of the destination instead of behind it
en_passant_off_board_ahead(move_to_make) ==
    LET passing_pawn_direction == IF move_to_make.color = "White" THEN 1 ELSE -1
    IN  \/ move_to_make.to.rank + passing_pawn_direction < 0
        \/ move_to_make.to.rank + passing_pawn_direction > 7

\* the guard of the panic in make_valid_move: the passed pawn's square is off the board
en_passant_off_board(move_to_make) ==
    LET passing_pawn_direction == IF move_to_make.color = "White" THEN -1 ELSE 1
    IN  \/ move_to_make.to.rank + passing_pawn_direction < 0
        \/ move_to_make.to.rank + passing_pawn_direction > 7

\* an en-passant capture handled as a plain capture: the passed pawn stays
new_squares_plain_capture(position, move_to_make) ==
    [position.board EXCEPT
        ![index_of(move_to_make.from) + 1] = None,
        ![index_of(move_to_make.to) + 1] =
            Some(OccupiedSquare(move_to_make.piece, move_to_make.color))]

\* a pawn that reaches the last rank replaced by a queen
new_squares_promoting_to_queen(position, move_to_make) ==
    LET promotes == /\ move_to_make.piece = "Pawn"
                    /\ move_to_make.to.rank = (IF move_to_make.color = "White" THEN 7 ELSE 0)
        moved == [position.board EXCEPT
                     ![index_of(move_to_make.from) + 1] = None,
                     ![index_of(move_to_make.to) + 1] =
                         Some(OccupiedSquare(IF promotes THEN "Queen" ELSE move_to_make.piece,
                                             move_to_make.color))]
        passing_pawn_direction == IF move_to_make.color = "White" THEN -1 ELSE 1
        pawn_to_take_square ==
            Square(move_to_make.to.rank + passing_pawn_direction, move_to_make.to.file)
    IN  IF move_to_make.takes_en_passant
        THEN [moved EXCEPT ![index_of(pawn_to_take_square) + 1] = None]
        ELSE moved

\* new_squares of make_valid_move: the origin cleared, the destination set and,
\* for an en-passant capture, the passed pawn's square cleared
new_squares(position, move_to_make) ==
    LET moved == [position.board EXCEPT
                     ![index_of(move_to_make.from) + 1] = None,
                     ![index_of(move_to_make.to) + 1] =
                         Some(OccupiedSquare(move_to_make.piece, move_to_make.color))]
        passing_pawn_direction == IF move_to_make.color = "White" THEN -1 ELSE 1
        pawn_to_take_square ==
            Square(move_to_make.to.rank + passing_pawn_direction, move_to_make.to.file)
    IN  IF move_to_make.takes_en_passant
        THEN [moved EXCEPT ![index_of(pawn_to_take_square) + 1] = None]
        ELSE moved

\* the previous target kept when the move installs none
en_passant_square_kept(position, move_to_make) ==
    IF is_some(move_to_make.en_passant_square)
    THEN move_to_make.en_passant_square
    ELSE position.en_passant_square

\* the target put on the square the double-stepping pawn lands on
en_passant_square_at_destination(position, move_to_make) ==
    IF is_some(move_to_make.en_passant_square) THEN Some(move_to_make.to) ELSE None

\* the en_passant_square field of the Position make_valid_move builds
en_passant_square_after(position, move_to_make) == move_to_make.en_passant_square

\* the clock reset by captures only
half_move_clock_captures_only(position, move_to_make) ==
    IF is_some(move_to_make.takes) THEN 0 ELSE position.half_move_clock + 1

\* the half_move_clock field of the Position make_valid_move builds
half_move_clock_after(position, move_to_make) ==
    IF is_some(move_to_make.takes) \/ move_to_make.piece = "Pawn"
    THEN 0
    ELSE position.half_move_clock + 1

\* the counter incremented after White's moves instead of Black's
full_move_counter_after_white(position, move_to_make) ==
    IF move_to_make.color = "White"
    THEN position.full_move_counter + 1
    ELSE position.full_move_counter

\* the full_move_counter field of the Position make_valid_move builds
full_move_counter_after(position, move_to_make) ==
    IF move_to_make.color = "White"
    THEN position.full_move_counter
    ELSE position.full_move_counter + 1

\* the side to move carried into the new Position instead of its opposite
make_valid_move_same_side(position, move_to_make) ==
    IF move_to_make.takes_en_passant /\ en_passant_off_board(move_to_make)
    THEN [panic |-> TRUE]
    ELSE [board |-> new_squares(position, move_to_make),
          next_to_move |-> position.next_to_move,
          white_can_castle_king_side |-> position.white_can_castle_king_side,
          white_can_castle_queen_side |-> position.white_can_castle_queen_side,
          black_can_castle_king_side |-> position.black_can_castle_king_side,
          black_can_castle_queen_side |-> position.black_can_castle_queen_side,
          en_passant_square |-> en_passant_square_after(position, move_to_make),
          half_move_clock |-> half_move_clock_after(position, move_to_make),
          full_move_counter |-> full_move_counter_after(position, move_to_make)]

\* the mover's castling flags cleared by a king move
make_valid_move_king_move_clears_flags(position, move_to_make) ==
    IF move_to_make.takes_en_passant /\ en_passant_off_board(move_to_make)
    THEN [panic |-> TRUE]
    ELSE LET white_king == move_to_make.piece = "King" /\ move_to_make.color = "White"
             black_king == move_to_make.piece = "King" /\ move_to_make.color = "Black"
         IN  [board |-> new_squares(position, move_to_make),
              next_to_move |-> opposite(position.next_to_move),
              white_can_castle_king_side |-> position.white_can_castle_king_side /\ ~white_king,
              white_can_castle_queen_side |-> position.white_can_castle_queen_side /\ ~white_king,
              black_can_castle_king_side |-> position.black_can_castle_king_side /\ ~black_king,
              black_can_castle_queen_side |-> position.black_can_castle_queen_side /\ ~black_king,
              en_passant_square |-> en_passant_square_after(position, move_to_make),
              half_move_clock |-> half_move_clock_after(position, move_to_make),
              full_move_counter |-> full_move_counter_after(position, move_to_make)]

\* Game::make_valid_move: the Position after the move ([panic |-> TRUE] where the code panics)
make_valid_move(position, move_to_make) ==
    IF move_to_make.takes_en_passant /\ en_passant_off_board(move_to_make)
    THEN [panic |-> TRUE]
    ELSE [board |-> new_squares(position, move_to_make),
          next_to_move |-> opposite(position.next_to_move),
          white_can_castle_king_side |-> position.white_can_castle_king_side,
          white_can_castle_queen_side |-> position.white_can_castle_queen_side,
          black_can_castle_king_side |-> position.black_can_castle_king_side,
          black_can_castle_queen_side |-> position.black_can_castle_queen_side,
          en_passant_square |-> en_passant_square_after(position, move_to_make),
          half_move_clock |-> half_move_clock_after(position, move_to_make),
          full_move_counter |-> full_move_counter_after(position, move_to_make)]

\* ---------------------------------------------------------------- game/mod.rs: check and legality

\* the loop of valid_moves_for_color over the board indexes i..stop-1, in order
RECURSIVE moves_from_index(_, _, _, _)
moves_from_index(position, for_color, i, stop) ==
    IF i >= stop THEN <<>>
    ELSE IF i + 1 < stop
    THEN LET middle == (i + stop) \div 2
         IN  moves_from_index(position, for_color, i, middle)
             \o moves_from_index(position, for_color, middle, stop)
    ELSE LET occupied_square == position.board[i + 1]
         IN  IF is_some(occupied_square) /\ unwrap(occupied_square).color = for_color
             THEN possible_moves_for_piece(position, unwrap(occupied_square).piece,
                                           square_at(i), for_color)
             ELSE <<>>

\* valid_moves_for_color(for_color, false): every pseudo-legal move of the color
pseudo_legal_moves(position, for_color) ==
    moves_from_index(position, for_color, 0, Len(position.board))

\* the queen's moves left out of the moves searched for an attack
square_attacked_but_by_queens(position, square, by_color) ==
    LET opposite_color_moves == pseudo_legal_moves(position, by_color)
        hits == SelectSeq(opposite_color_moves,
                          LAMBDA valid_move :
                              valid_move.to = square /\ valid_move.piece # "Queen")
    IN  IF hits = <<>> THEN None ELSE Some(Head(hits))

\* Game::square_attacked: the first move of by_color that lands on the square
square_attacked(position, square, by_color) ==
    LET opposite_color_moves == pseudo_legal_moves(position, by_color)
        hits == SelectSeq(opposite_color_moves, LAMBDA valid_move : valid_move.to = square)
    IN  IF hits = <<>> THEN None ELSE Some(Head(hits))

\* check reported for the side to move only
in_check_side_to_move_only(position, color) ==
    /\ color = position.next_to_move
    /\ \E i \in 0..(Len(position.board) - 1) :
           /\ position.board[i + 1] = Some(OccupiedSquare("King", color))
           /\ is_some(square_attacked(position, square_at(i), opposite(color)))

\* Game::in_check: the first king of the color found on the board is attacked
in_check(position, color) ==
    LET kings == {i \in 0..(Len(position.board) - 1) :
                     /\ is_some(position.board[i + 1])
                     /\ unwrap(position.board[i + 1]).piece = "King"
                     /\ unwrap(position.board[i + 1]).color = color}
    IN  IF kings = {} THEN FALSE
        ELSE LET i == CHOOSE k \in kings : \A other \in kings : k <= other
             IN  is_some(square_attacked(position, square_at(i), opposite(color)))

\* the legality filter dropped: every pseudo-legal move is returned
valid_moves_for_color_unfiltered(position, for_color, filter_out_discover_checks) ==
    pseudo_legal_moves(position, for_color)

\* the filter asking whether the other side's king is in check after the move
valid_moves_for_color_checks_opponent(position, for_color, filter_out_discover_checks) ==
    IF filter_out_discover_checks
    THEN SelectSeq(pseudo_legal_moves(position, for_color),
                   LAMBDA valid_move :
                       ~in_check(make_valid_move(position, valid_move), opposite(for_color)))
    ELSE pseudo_legal_moves(position, for_color)

\* Game::valid_moves_for_color
valid_moves_for_color(position, for_color, filter_out_discover_checks) ==
    IF filter_out_discover_checks
    THEN SelectSeq(pseudo_legal_moves(position, for_color),
                   LAMBDA valid_move :
                       ~in_check(make_valid_move(position, valid_move), for_color))
    ELSE pseudo_legal_moves(position, for_color)

\* Game::valid_moves
valid_moves(position) == valid_moves_for_color(position, position.next_to_move, TRUE)

\* mate reported whenever the side to move has no valid move
in_mate_without_check(position) == Len(valid_moves(position)) = 0

\* Game::in_mate
in_mate(position) ==
    in_check(position, position.next_to_move) /\ Len(valid_moves(position)) = 0

\* Game::draw_by_fifty_move_rule
draw_by_fifty_move_rule(position) == position.half_move_clock >= 50

\* ---------------------------------------------------------------- game/mod.rs: notation

\* ValidMove::notation
notation(valid_move) ==
    LET piece == CASE valid_move.piece = "Pawn"   -> <<>>
                   [] valid_move.piece = "Bishop" -> <<"B">>
                   [] valid_move.piece = "Knight" -> <<"N">>
                   [] valid_move.piece = "Rook"   -> <<"R">>
                   [] valid_move.piece = "Queen"  -> <<"Q">>
                   [] valid_move.piece = "King"   -> <<"K">>
        disambiguation ==
            IF valid_move.piece = "Pawn" /\ is_some(valid_move.takes)
            THEN to_notation(valid_move.from, "OnlyFile")
            ELSE <<>>
        takes == IF is_some(valid_move.takes) THEN <<"x">> ELSE <<>>
        to_square == to_notation(valid_move.to, "FileAndRank")
    IN  piece \o disambiguation \o takes \o to_square

\* ValidMove::parse_piece_letter (to_uppercase, then the six letters)
parse_piece_letter(letter) ==
    LET upper == IF \E l \in 1..26 : LowerLetters[l] = letter
                 THEN UpperLetters[CHOOSE l \in 1..26 : LowerLetters[l] = letter]
                 ELSE letter
    IN  CASE upper = "N" -> Some("Knight")
          [] upper = "P" -> Some("Pawn")
          [] upper = "B" -> Some("Bishop")
          [] upper = "R" -> Some("Rook")
          [] upper = "Q" -> Some("Queen")
          [] upper = "K" -> Some("King")
          [] OTHER       -> None

\* the character classes of NOTATION_REGEX
PieceLetterClass == {"P", "N", "B", "R", "Q", "K"}

FileClass == {"a", "b", "c", "d", "e", "f", "g", "h"}

RankClass == {"1", "2", "3", "4", "5", "6", "7", "8"}

\* the character at position k of a text (1-based), "" past its end
char_at(chars, k) == IF k >= 1 /\ k <= Len(chars) THEN chars[k] ELSE ""

\* The optional groups of the first alternative of NOTATION_REGEX, <<piece, from
\* file, from rank, takes>>, in the order a leftmost-first matcher tries them:
\* each optional item is tried present before absent, the last one varying first.
OptionalGroupChoices ==
    <<<<1, 1, 1, 1>>, <<1, 1, 1, 0>>, <<1, 1, 0, 1>>, <<1, 1, 0, 0>>,
      <<1, 0, 1, 1>>, <<1, 0, 1, 0>>, <<1, 0, 0, 1>>, <<1, 0, 0, 0>>,
      <<0, 1, 1, 1>>, <<0, 1, 1, 0>>, <<0, 1, 0, 1>>, <<0, 1, 0, 0>>,
      <<0, 0, 1, 1>>, <<0, 0, 1, 0>>, <<0, 0, 0, 1>>, <<0, 0, 0, 0>>>>

\* does ^(piece)?(from)(takes)?(to) match a prefix of the text with this choice
move_alternative_matches(chars, choice) ==
    LET file_at  == 1 + choice[1]
        rank_at  == file_at + choice[2]
        takes_at == rank_at + choice[3]
        to_at    == takes_at + choice[4]
    IN  /\ choice[1] = 1 => char_at(chars, 1) \in PieceLetterClass
        /\ choice[2] = 1 => char_at(chars, file_at) \in FileClass
        /\ choice[3] = 1 => char_at(chars, rank_at) \in RankClass
        /\ choice[4] = 1 => char_at(chars, takes_at) = "x"
        /\ char_at(chars, to_at) \in FileClass
        /\ char_at(chars, to_at + 1) \in RankClass

\* does (castles O-O-O)(check_or_mate)?$ match the text somewhere
castles_alternative_matches(chars) ==
    \E k \in 1..Len(chars) :
        /\ <<char_at(chars, k), char_at(chars, k + 1), char_at(chars, k + 2),
             char_at(chars, k + 3), char_at(chars, k + 4)>> = <<"O", "-", "O", "-", "O">>
        /\ \/ k + 4 = Len(chars)
           \/ k + 5 = Len(chars) /\ char_at(chars, k + 5) \in {"#", "+"}

\* the named groups of a match of the first alternative made with this choice
move_alternative_groups(chars, choice) ==
    [piece |-> IF choice[1] = 1 THEN Some(chars[1]) ELSE None,
     from |-> Some((IF choice[2] = 1 THEN <<chars[1 + choice[1]]>> ELSE <<>>)
                   \o (IF choice[3] = 1 THEN <<chars[1 + choice[1] + choice[2]]>> ELSE <<>>)),
     takes |-> IF choice[4] = 1 THEN Some(<<"x">>) ELSE None,
     to |-> Some(<<chars[2 + choice[1] + choice[2] + choice[3] + choice[4] - 1],
                   chars[2 + choice[1] + choice[2] + choice[3] + choice[4]]>>),
     promotion |->
         IF /\ char_at(chars, 3 + choice[1] + choice[2] + choice[3] + choice[4]) = "="
            /\ char_at(chars, 4 + choice[1] + choice[2] + choice[3] + choice[4])
                   \in PieceLetterClass
         THEN Some(chars[4 + choice[1] + choice[2] + choice[3] + choice[4]]) ELSE None,
     castles |-> None]

\* NOTATION_REGEX.captures: None, or the named groups of the match
NOTATION_REGEX_captures(chars) ==
    IF \E n \in 1..16 : move_alternative_matches(chars, OptionalGroupChoices[n])
    THEN Some(move_alternative_groups(chars, OptionalGroupChoices[
                  CHOOSE n \in 1..16 :
                      /\ move_alternative_matches(chars, OptionalGroupChoices[n])
                      /\ \A earlier \in 1..(n - 1) :
                             ~move_alternative_matches(chars, OptionalGroupChoices[earlier])]))
    ELSE IF castles_alternative_matches(chars)
    THEN Some([piece |-> None, from |-> None, takes |-> None, to |-> None,
               promotion |-> None,
               castles |-> Some(<<"O", "-", "O", "-", "O">>)])
    ELSE None

PartialMove(piece, from, to, takes) ==
    [piece |-> piece, from |-> from, to |-> to, takes |-> takes]

\* Game::move_matches
move_matches(m, template) ==
    IF template.piece # m.piece THEN FALSE
    ELSE IF /\ is_some(template.from)
            /\ \/ is_some(unwrap(template.from).rank)
                  /\ unwrap(unwrap(template.from).rank) # m.from.rank
               \/ is_some(unwrap(template.from).file)
                  /\ unwrap(unwrap(template.from).file) # m.from.file
    THEN FALSE
    ELSE IF template.to # m.to THEN FALSE
    ELSE IF is_some(template.takes) /\ is_some(m.takes) # unwrap(template.takes) THEN FALSE
    ELSE TRUE

\* Game::find_moves: the moves of self.valid_moves(), here `moves`, that match
find_moves(moves, template) ==
    SelectSeq(moves, LAMBDA valid_move : move_matches(valid_move, template))

\* the end of from_notation: the one move found, an error for none or several
the_only_move(found) ==
    IF Len(found) = 1 THEN [ok |-> TRUE, value |-> found[Len(found)]] ELSE [ok |-> FALSE]

\* from_notation once the piece and the destination are parsed
from_parsed_notation(moves, piece, takes, to) ==
    IF ~to.ok THEN [ok |-> FALSE]
    ELSE the_only_move(find_moves(moves,
                                  PartialMove(IF is_some(piece) THEN unwrap(piece) ELSE "Pawn",
                                              None, to.value, Some(takes))))

\* the origin hint threaded into the template: only the moves from the hint's
\* file and rank are candidates
from_captures_from_hinted_origin(moves, matches) ==
    IF ~is_some(matches) THEN [ok |-> FALSE]
    ELSE IF ~is_some(unwrap(matches).to) THEN [ok |-> FALSE]
    ELSE from_parsed_notation(
             SelectSeq(moves, LAMBDA valid_move :
                 \A k \in 1..Len(unwrap(unwrap(matches).from)) :
                     \/ unwrap(unwrap(matches).from)[k] = FILE_LABELS[valid_move.from.file + 1]
                     \/ unwrap(unwrap(matches).from)[k] = Digits[valid_move.from.rank + 2]),
             IF is_some(unwrap(matches).piece)
             THEN parse_piece_letter(unwrap(unwrap(matches).piece))
             ELSE None,
             is_some(unwrap(matches).takes),
             Square_from_notation(unwrap(unwrap(matches).to)))

\* from_notation once NOTATION_REGEX has matched
from_captures(moves, matches) ==
    IF ~is_some(matches) THEN [ok |-> FALSE]
    ELSE IF ~is_some(unwrap(matches).to) THEN [ok |-> FALSE]
    ELSE from_parsed_notation(moves,
                              IF is_some(unwrap(matches).piece)
                              THEN parse_piece_letter(unwrap(unwrap(matches).piece))
                              ELSE None,
                              is_some(unwrap(matches).takes),
                              Square_from_notation(unwrap(unwrap(matches).to)))

\* ValidMove::from_notation, `moves` being game.valid_moves()
from_notation(moves, chars) == from_captures(moves, NOTATION_REGEX_captures(chars))

\* the end of make_move: the move applied, or the error passed on
make_resolved_move(position, move_to_make) ==
    IF move_to_make.ok
    THEN [ok |-> TRUE, value |-> make_valid_move(position, move_to_make.value),
          move |-> move_to_make.value]
    ELSE [ok |-> FALSE]

\* Game::make_move, `moves` being the valid_moves() of the position
make_move(position, moves, chars) ==
    make_resolved_move(position, from_notation(moves, chars))

\* ---------------------------------------------------------------- fen.rs

PieceChars == <<"P", "N", "B", "R", "Q", "K", "p", "n", "b", "r", "q", "k">>

PieceOccupancies ==
    <<OccupiedSquare("Pawn", "White"), OccupiedSquare("Knight", "White"),
      OccupiedSquare("Bishop", "White"), OccupiedSquare("Rook", "White"),
      OccupiedSquare("Queen", "White"), OccupiedSquare("King", "White"),
      OccupiedSquare("Pawn", "Black"), OccupiedSquare("Knight", "Black"),
      OccupiedSquare("Bishop", "Black"), OccupiedSquare("Rook", "Black"),
      OccupiedSquare("Queen", "Black"), OccupiedSquare("King", "Black")>>

\* the letter of the piece written in upper case for both colors
occupancy_to_char_upper_case(occupancy) ==
    PieceChars[CHOOSE n \in 1..6 : PieceOccupancies[n].piece = occupancy.piece]

\* Position::occupancy_to_char
occupancy_to_char(occupancy) ==
    PieceChars[CHOOSE n \in 1..12 : PieceOccupancies[n] = occupancy]

\* Position::occupancy_from_char
occupancy_from_char(letter) ==
    IF \E n \in 1..12 : PieceChars[n] = letter
    THEN [ok |-> TRUE, value |-> PieceOccupancies[CHOOSE n \in 1..12 : PieceChars[n] = letter]]
    ELSE [ok |-> FALSE, message |-> "Invalid piece letter"]

\* n copies of None
blank_squares(n) == [k \in 1..n |-> None]

\* The piece-placement loop of from_fen: k is the next character to read, i the
\* square counter (a u8) and squares the board pushed so far. The loop is run in
\* slices of at most `steps` iterations so that the evaluation stays shallow.
RECURSIVE read_squares_steps(_, _, _, _, _)
read_squares_steps(chars, k, i, squares, steps) ==
    IF i >= 8 * 8 \/ steps = 0 THEN [ok |-> TRUE, next |-> k, i |-> i, squares |-> squares]
    ELSE LET first_square_in_rank == i % 8 = 0
             c == char_at(chars, k)
         IN  IF k > Len(chars)
             THEN [ok |-> FALSE, message |-> "Unexpected end of FEN string"]
             ELSE IF c = "/" /\ first_square_in_rank
             THEN read_squares_steps(chars, k + 1, i, squares, steps - 1)
             ELSE IF is_digit(c)
             THEN read_squares_steps(chars, k + 1, (i + digit_value(c)) % 256,
                                     squares \o blank_squares(digit_value(c)), steps - 1)
             ELSE IF is_alphabetic(c)
             THEN LET occupancy == occupancy_from_char(c)
                  IN  IF occupancy.ok
                      THEN read_squares_steps(chars, k + 1, (i + 1) % 256,
                                              Append(squares, Some(occupancy.value)),
                                              steps - 1)
                      ELSE occupancy
             ELSE [ok |-> FALSE, message |-> "Unexpected character"]

RECURSIVE read_squares(_, _, _, _)
read_squares(chars, k, i, squares) ==
    LET slice == read_squares_steps(chars, k, i, squares, 8)
    IN  IF ~slice.ok THEN slice
        ELSE IF slice.i >= 8 * 8
        THEN [ok |-> TRUE, next |-> slice.next, squares |-> slice.squares]
        ELSE read_squares(chars, slice.next, slice.i, slice.squares)

\* The castling loop of from_fen: flags is <<K, Q, k, q>> read so far.
RECURSIVE read_castling(_, _, _)
read_castling(chars, k, flags) ==
    LET c == char_at(chars, k)
    IN  IF k > Len(chars) THEN [ok |-> FALSE, message |-> "Unexpected end of FEN string"]
        ELSE IF c = " " THEN [ok |-> TRUE, next |-> k + 1, flags |-> flags]
        ELSE IF c = "-" THEN read_castling(chars, k + 1, flags)
        ELSE IF c = "K" THEN read_castling(chars, k + 1, [flags EXCEPT ![1] = TRUE])
        ELSE IF c = "Q" THEN read_castling(chars, k + 1, [flags EXCEPT ![2] = TRUE])
        ELSE IF c = "k" THEN read_castling(chars, k + 1, [flags EXCEPT ![3] = TRUE])
        ELSE IF c = "q" THEN read_castling(chars, k + 1, [flags EXCEPT ![4] = TRUE])
        ELSE [ok |-> FALSE, message |-> "Unexpected character"]

\* The digit loops of from_fen: num_string collected up to a space (the half-move
\* clock, stop_at_space) or up to the end of the text (the full-move counter).
RECURSIVE read_number(_, _, _, _)
read_number(chars, k, num_string, stop_at_space) ==
    LET c == char_at(chars, k)
    IN  IF k > Len(chars)
        THEN IF stop_at_space
             THEN [ok |-> FALSE, message |-> "Unexpected end of FEN string"]
             ELSE [ok |-> TRUE, next |-> k, num_string |-> num_string]
        ELSE IF is_digit(c) THEN read_number(chars, k + 1, Append(num_string, c), stop_at_space)
        ELSE IF c = " " /\ stop_at_space
        THEN [ok |-> TRUE, next |-> k + 1, num_string |-> num_string]
        ELSE [ok |-> FALSE, message |-> "Unexpected character"]

\* str::parse::<i64> of a text of decimal digits (the empty text is an error)
RECURSIVE digits_value(_)
digits_value(num_string) ==
    IF num_string = <<>> THEN 0
    ELSE digits_value(SubSeq(num_string, 1, Len(num_string) - 1)) * 10
         + digit_value(num_string[Len(num_string)])

parse_i64(num_string) ==
    IF num_string = <<>> THEN [ok |-> FALSE]
    ELSE [ok |-> TRUE, value |-> digits_value(num_string)]

\* the en-passant field of from_fen, read at position k
read_en_passant(chars, k) ==
    LET c == char_at(chars, k)
    IN  IF k > Len(chars) THEN [ok |-> FALSE, message |-> "Unexpected end of FEN string"]
        ELSE IF is_alphabetic(c)
        THEN IF k + 1 > Len(chars)
             THEN [ok |-> FALSE,
                   message |-> "Unexpected end of FEN string while reading en-passant notation"]
             ELSE LET square == Square_from_notation(<<c, chars[k + 1]>>)
                  IN  IF square.ok
                      THEN [ok |-> TRUE, next |-> k + 2, value |-> Some(square.value)]
                      ELSE [ok |-> FALSE, message |-> "Invalid en-passant notation"]
        ELSE IF c = "-" THEN [ok |-> TRUE, next |-> k + 1, value |-> None]
        ELSE [ok |-> FALSE, message |-> "Unexpected character"]

\* Position::from_fen
from_fen(chars) ==
    LET board == read_squares(chars, 1, 0, <<>>)
    IN  IF ~board.ok THEN board
        ELSE IF char_at(chars, board.next) # " "
        THEN [ok |-> FALSE, message |-> "Expected ' ' after the piece positions"]
        ELSE LET mover == char_at(chars, board.next + 1)
             IN  IF board.next + 1 > Len(chars)
                 THEN [ok |-> FALSE, message |-> "Unexpected end of FEN string"]
                 ELSE IF mover \notin {"w", "b"}
                 THEN [ok |-> FALSE, message |-> "Unexpected char instead of player to move"]
                 ELSE IF char_at(chars, board.next + 2) # " "
                 THEN [ok |-> FALSE, message |-> "Expected ' ' after the player to move"]
                 ELSE LET castling == read_castling(chars, board.next + 3,
                                                    <<FALSE, FALSE, FALSE, FALSE>>)
                      IN  IF ~castling.ok THEN castling
                          ELSE LET en_passant == read_en_passant(chars, castling.next)
                               IN  IF ~en_passant.ok THEN en_passant
                                   ELSE IF char_at(chars, en_passant.next) # " "
                                   THEN [ok |-> FALSE,
                                         message |-> "Expected ' ' after the castling flags"]
                                   ELSE LET half == read_number(chars, en_passant.next + 1,
                                                                <<>>, TRUE)
                                        IN  IF ~half.ok THEN half
                                            ELSE IF ~parse_i64(half.num_string).ok
                                            THEN [ok |-> FALSE,
                                                  message |-> "Cannot parse half-move clock as int"]
                                            ELSE LET full == read_number(chars, half.next,
                                                                         <<>>, FALSE)
                                                 IN  IF ~full.ok THEN full
                                                     ELSE IF ~parse_i64(full.num_string).ok
                                                     THEN [ok |-> FALSE,
                                                           message |->
                                                             "Cannot parse half-move clock as int"]
                                                     ELSE [ok |-> TRUE, value |->
    [board |-> board.squares,
     next_to_move |-> IF mover = "w" THEN "White" ELSE "Black",
     white_can_castle_king_side |-> castling.flags[1],
     white_can_castle_queen_side |-> castling.flags[2],
     black_can_castle_king_side |-> castling.flags[3],
     black_can_castle_queen_side |-> castling.flags[4],
     en_passant_square |-> en_passant.value,
     half_move_clock |-> parse_i64(half.num_string).value,
     full_move_counter |-> parse_i64(full.num_string).value]]

\* The piece-placement loop of to_fen over the board indexes i..stop-1,
\* blank_square_count being the run of empty squares not yet written: the text
\* written and the count left.
RECURSIVE write_squares_steps(_, _, _, _)
write_squares_steps(squares, i, stop, blank_square_count) ==
    IF i >= stop THEN [text |-> <<>>, blank_square_count |-> blank_square_count]
    ELSE LET occupancy == squares[i + 1]
             square == square_at(i)
             last_square_in_rank == square.file = 7
             piece_text ==
                 IF is_some(occupancy)
                 THEN (IF blank_square_count > 0 THEN to_string(blank_square_count) ELSE <<>>)
                      \o <<occupancy_to_char(unwrap(occupancy))>>
                 ELSE <<>>
             count == IF is_some(occupancy) THEN 0 ELSE blank_square_count + 1
             flush_text == IF last_square_in_rank /\ count > 0 THEN to_string(count) ELSE <<>>
             count_after == IF last_square_in_rank /\ count > 0 THEN 0 ELSE count
             slash == IF last_square_in_rank /\ square.rank # 0 THEN <<"/">> ELSE <<>>
             rest == write_squares_steps(squares, i + 1, stop, count_after)
         IN  [text |-> piece_text \o flush_text \o slash \o rest.text,
              blank_square_count |-> rest.blank_square_count]

\* the whole loop, run in slices of eight indexes so that the evaluation stays shallow
RECURSIVE write_squares(_, _, _)
write_squares(squares, i, blank_square_count) ==
    IF i >= Len(squares) THEN <<>>
    ELSE LET stop == IF i + 8 < Len(squares) THEN i + 8 ELSE Len(squares)
             slice == write_squares_steps(squares, i, stop, blank_square_count)
         IN  slice.text \o write_squares(squares, stop, slice.blank_square_count)

\* Position::to_fen
to_fen(position) ==
    LET castling ==
            (IF position.white_can_castle_king_side THEN <<"K">> ELSE <<>>)
            \o (IF position.white_can_castle_queen_side THEN <<"Q">> ELSE <<>>)
            \o (IF position.black_can_castle_king_side THEN <<"k">> ELSE <<>>)
            \o (IF position.black_can_castle_queen_side THEN <<"q">> ELSE <<>>)
    IN  write_squares(position.board, 0, 0)
        \o <<" ">>
        \o <<IF position.next_to_move = "White" THEN "w" ELSE "b">>
        \o <<" ">>
        \o (IF castling = <<>> THEN <<"-">> ELSE castling)
        \o <<" ">>
        \o (IF is_some(position.en_passant_square)
            THEN to_notation(unwrap(position.en_passant_square), "FileAndRank")
            ELSE <<"-">>)
        \o <<" ">>
        \o to_string(position.half_move_clock)
        \o <<" ">>
        \o to_string(position.full_move_counter)

\* ---------------------------------------------------------------- parser/lexer.rs

\* a Token: its variant and, for the variants that carry one, its value
Token(kind, value) == [kind |-> kind, value |-> value]

EndOfFile == Token("EndOfFile", <<>>)

\* char::is_alphanumeric, on the ASCII letters and digits
is_alphanumeric(c) == is_alphabetic(c) \/ is_digit(c)

\* Lexer::new
Lexer_new(text) == [pgn |-> text, line |-> 1, column |-> 0]

\* Lexer::position
position_in_pgn(self) == [line |-> self.line, column |-> self.column]

\* Lexer::peek
lexer_peek(self) == IF self.pgn = <<>> THEN None ELSE Some(Head(self.pgn))

\* Lexer::next: the character taken, and the Lexer after taking it
lexer_next(self) ==
    IF self.pgn = <<>>
    THEN [char |-> None, lexer |-> [self EXCEPT !.column = @ + 1]]
    ELSE [char |-> Some(Head(self.pgn)),
          lexer |-> IF Head(self.pgn) = "\n"
                    THEN [pgn |-> Tail(self.pgn), line |-> self.line + 1, column |-> 0]
                    ELSE [pgn |-> Tail(self.pgn), line |-> self.line,
                          column |-> self.column + 1]]

\* Lexer::is_symbol_start
is_symbol_start(c) == is_alphanumeric(c)

\* Lexer::is_symbol_continuation
is_symbol_continuation(c) == c \in {"_", "+", "#", "=", ":", "-"} \/ is_alphanumeric(c)

\* the Lexer after n calls of Lexer::next that each took a character
advance(self, n) ==
    LET newlines == {k \in 1..n : self.pgn[k] = "\n"}
        last_newline == CHOOSE k \in newlines : \A other \in newlines : other <= k
    IN  [pgn |-> SubSeq(self.pgn, n + 1, Len(self.pgn)),
         line |-> self.line + Cardinality(newlines),
         column |-> IF newlines = {} THEN self.column + n ELSE n - last_newline]

\* the Lexer after a loop of Lexer::next calls that stops when it has taken the
\* character at index `closing`, or when next() has returned None (`closing` = 0)
after_loop(self, closing) ==
    IF closing = 0
    THEN [advance(self, Len(self.pgn)) EXCEPT !.column = @ + 1]
    ELSE advance(self, closing)

\* the first of the indexes a loop may stop at, 0 if there is none
first_index(indexes) ==
    IF indexes = {} THEN 0
    ELSE CHOOSE k \in indexes : \A other \in indexes : k <= other

\* the loop of the '%' arm of Lexer::lex: the rest of the line is dropped
skip_escaped_line(self) ==
    after_loop(self, first_index({k \in 1..Len(self.pgn) : self.pgn[k] = "\n"}))

\* the loop of the ';' and '{' arms of Lexer::lex: the text up to the closing
\* character, or up to the end of the input
read_comment(self, closing) ==
    LET closed_at == first_index({k \in 1..Len(self.pgn) : self.pgn[k] = closing})
    IN  [lexer |-> after_loop(self, closed_at),
         string |-> SubSeq(self.pgn, 1,
                           IF closed_at = 0 THEN Len(self.pgn) ELSE closed_at - 1)]

\* in_escape_sequence after the loop of the '"' arm has taken the k-th
\* character: a backslash sets it when it is clear and clears it when it is
\* set, every other character clears it, so it is set exactly after a run of
\* backslashes of odd length
in_escape_sequence(chars, k) ==
    /\ k >= 1
    /\ chars[k] = "\\"
    /\ LET others == {i \in 1..k : chars[i] # "\\"}
           run_start == IF others = {} THEN 0
                        ELSE CHOOSE i \in others : \A other \in others : other <= i
       IN  (k - run_start) % 2 = 1

\* the loop of the '"' arm of Lexer::lex: it stops at the first quote taken
\* outside an escape sequence, and pushes every character before it but the
\* backslashes that open an escape sequence
read_string(self) ==
    LET chars == self.pgn
        closed_at == first_index({k \in 1..Len(chars) :
                                     chars[k] = "\"" /\ ~in_escape_sequence(chars, k - 1)})
        pushed == SelectSeq([k \in 1..(closed_at - 1) |-> k],
                            LAMBDA k : ~in_escape_sequence(chars, k))
    IN  IF closed_at = 0
        THEN [ok |-> FALSE, lexer |-> after_loop(self, 0)]
        ELSE [ok |-> TRUE, lexer |-> after_loop(self, closed_at),
              string |-> [k \in 1..Len(pushed) |-> chars[pushed[k]]]]

\* the loop of Lexer::read_int and of Lexer::read_symbol: the characters taken
\* while they are digits, or symbol continuations
RECURSIVE read_while(_, _, _)
read_while(self, string, digits_only) ==
    LET c == lexer_peek(self)
    IN  IF c = None THEN [lexer |-> self, string |-> string]
        ELSE IF (IF digits_only THEN is_digit(unwrap(c)) ELSE is_symbol_continuation(unwrap(c)))
        THEN read_while(lexer_next(self).lexer, Append(string, unwrap(c)), digits_only)
        ELSE [lexer |-> self, string |-> string]

\* Lexer::read_int: the Lexer after the digits and the parsed value
read_int(self) ==
    LET lexeme == read_while(self, <<>>, TRUE)
    IN  [lexer |-> lexeme.lexer, int |-> parse_i64(lexeme.string)]

\* Lexer::read_symbol
read_symbol(self) == read_while(self, <<>>, FALSE)

\* one pass of the loop when nothing ends it: the Lexer after it and the tokens pushed
lexed(self, pushed) == [outcome |-> "continue", lexer |-> self, pushed |-> pushed]

\* return Err(LexerError::...(self.position()))
lexer_error(kind, self) ==
    [outcome |-> "error", lexer |-> self, pushed |-> <<>>,
     error |-> [kind |-> kind, position |-> position_in_pgn(self)]]

\* the self-delimiting one-character tokens of Lexer::lex
SingleCharacterTokens ==
    [c \in {".", "*", "[", "]", "(", ")", "<", ">"} |->
        CASE c = "." -> "Period"
          [] c = "*" -> "Asterisk"
          [] c = "[" -> "OpenBracket"
          [] c = "]" -> "CloseBracket"
          [] c = "(" -> "OpenParen"
          [] c = ")" -> "CloseParen"
          [] c = "<" -> "OpenAngleBracket"
          [] c = ">" -> "CloseAngleBracket"]

\* the Symbol arm of Lexer::lex: a symbol of digits only is an Integer
lex_symbol(self) ==
    LET lexeme == read_symbol(self)
        is_integer == \A k \in 1..Len(lexeme.string) : is_digit(lexeme.string[k])
        int == parse_i64(lexeme.string)
    IN  IF is_integer
        THEN IF int.ok
             THEN lexed(lexeme.lexer, <<Token("Integer", int.value)>>)
             ELSE lexer_error("ParseIntError", lexeme.lexer)
        ELSE lexed(lexeme.lexer, <<Token("Symbol", lexeme.string)>>)

\* one pass of the loop of Lexer::lex, on the character peeked
lex_pass(self) ==
    LET next_char == lexer_peek(self)
        c == unwrap(next_char)
        after == lexer_next(self).lexer
    IN  IF next_char = None
        THEN [outcome |-> "break", lexer |-> self, pushed |-> <<EndOfFile>>]
        ELSE IF c = "%" /\ self.column = 0
        THEN lexed(skip_escaped_line(self), <<>>)
        ELSE IF c = ";" /\ self.column = 0
        THEN LET lexeme == read_comment(after, "\n")
             IN  lexed(lexeme.lexer, <<Token("Comment", lexeme.string)>>)
        ELSE IF c = "{"
        THEN LET lexeme == read_comment(after, "}")
             IN  lexed(lexeme.lexer, <<Token("Comment", lexeme.string)>>)
        ELSE IF c = "\""
        THEN LET lexeme == read_string(after)
             IN  IF lexeme.ok
                 THEN lexed(lexeme.lexer, <<Token("String", lexeme.string)>>)
                 ELSE lexer_error("UnterminatedString", lexeme.lexer)
        ELSE IF c = " " \/ c = "\n"
        THEN lexed(after, <<>>)
        ELSE IF c \in DOMAIN SingleCharacterTokens
        THEN lexed(after, <<Token(SingleCharacterTokens[c], <<>>)>>)
        ELSE IF c = "$"
        THEN LET lexeme == read_int(after)
             IN  IF lexeme.int.ok
                 THEN lexed(lexeme.lexer, <<Token("NumericAnnotationGlyph", lexeme.int.value)>>)
                 ELSE lexer_error("ParseIntError", lexeme.lexer)
        ELSE IF is_symbol_start(c)
        THEN lex_symbol(self)
        ELSE lexer_error("UnexpectedCharacter", self)

\* ---------------------------------------------------------------- parser/mod.rs

\* GameResult::from_string
GameResult_from_string(string) ==
    IF string = <<"*">> THEN Some("Unknown")
    ELSE IF string = <<"1", "-", "0">> THEN Some("WhiteWins")
    ELSE IF string = <<"0", "-", "1">> THEN Some("BlackWins")
    ELSE IF string = <<"1", "/", "2", "-", "1", "/", "2">> THEN Some("Draw")
    ELSE None

\* a Reverse of a sequence (Vec::reverse)
reverse(sequence) == [k \in 1..Len(sequence) |-> sequence[Len(sequence) + 1 - k]]

\* Parser::new: the tokens reversed, the next token last
Parser_new(token_list) == [tokens |-> reverse(token_list)]

\* the three ways a parsing function ends: a value and the Parser after it, a
\* ParseError, or a panic
parsed(self, value) == [outcome |-> "ok", parser |-> self, value |-> value]

parse_error(kind, detail) == [outcome |-> "err", error |-> [kind |-> kind, detail |-> detail]]

parser_panic == [outcome |-> "panic", message |-> "Tried to get token after the end of tokens"]

\* Parser::peek, where there is a token left (it panics where there is none)
peek(self) == self.tokens[Len(self.tokens)]

peek_panics(self) == self.tokens = <<>>

\* Parser::read, where there is a token left (Err(UnexpectedEndOfFile) where
\* there is none): the Parser after tokens.pop()
read(self) == [tokens |-> SubSeq(self.tokens, 1, Len(self.tokens) - 1)]

\* Parser::ignore_comments
RECURSIVE ignore_comments(_)
ignore_comments(self) ==
    IF peek_panics(self) THEN parser_panic
    ELSE IF peek(self).kind = "Comment" THEN ignore_comments(read(self))
    ELSE parsed(self, <<>>)

\* the character classes of VALID_MOVE_REGEX, which is case-insensitive
lower_case(c) ==
    IF \E l \in 1..26 : UpperLetters[l] = c
    THEN LowerLetters[CHOOSE l \in 1..26 : UpperLetters[l] = c]
    ELSE c

is_piece_letter(c) == lower_case(c) \in {"p", "n", "b", "r", "q", "k"}

is_file_letter(c) == lower_case(c) \in {"a", "b", "c", "d", "e", "f", "g", "h"}

is_rank_digit(c) == c \in {"1", "2", "3", "4", "5", "6", "7", "8"}

\* Parser::is_possibly_a_move: the whole text matches
\* ^(?i)[PNBRQK]?([a-h]?[1-8]?)x?[a-h][1-8](=[NBRQK])?[#\+]?$ for some choice
\* of which optional parts are present
is_possibly_a_move(notation_text) ==
    \E piece, from_file, from_rank, takes, promotion, check \in {0, 1} :
        LET file_at == 1 + piece
            rank_at == file_at + from_file
            takes_at == rank_at + from_rank
            to_at == takes_at + takes
            promotion_at == to_at + 2
            check_at == promotion_at + 2 * promotion
        IN  /\ Len(notation_text) = check_at + check - 1
            /\ piece = 1 => is_piece_letter(notation_text[1])
            /\ from_file = 1 => is_file_letter(notation_text[file_at])
            /\ from_rank = 1 => is_rank_digit(notation_text[rank_at])
            /\ takes = 1 => lower_case(notation_text[takes_at]) = "x"
            /\ is_file_letter(notation_text[to_at])
            /\ is_rank_digit(notation_text[to_at + 1])
            /\ promotion = 1 =>
                   /\ notation_text[promotion_at] = "="
                   /\ lower_case(notation_text[promotion_at + 1]) \in {"n", "b", "r", "q", "k"}
            /\ check = 1 => notation_text[check_at] \in {"#", "+"}

\* Parser::is_game_end
is_game_end(token) ==
    token.kind = "Symbol" /\ is_some(GameResult_from_string(token.value))

\* Move { number, white_move, black_move }
Move(number, white_move, black_move) ==
    [number |-> number, white_move |-> white_move, black_move |-> black_move]

\* consume_value_optional_if!(self, Token::Symbol(value), value,
\* Self::is_possibly_a_move(value)), where there is a token left: the value and
\* the Parser after it
consume_move(self) ==
    IF peek(self).kind = "Symbol" /\ is_possibly_a_move(peek(self).value)
    THEN parsed(read(self), Some(peek(self).value))
    ELSE parsed(self, None)

\* the end of Parser::parse_move: the black move and the comments after it
parse_black_move(self, number, white_move) ==
    IF peek_panics(self) THEN parser_panic
    ELSE LET black_move == consume_move(self)
             comments == ignore_comments(black_move.parser)
         IN  IF comments.outcome = "panic" THEN parser_panic
             ELSE parsed(comments.parser, Move(number, white_move, black_move.value))

\* Parser::parse_move from the white move on
parse_white_move(self, number) ==
    IF peek_panics(self) THEN parser_panic
    ELSE LET white_move == consume_move(self)
             comments == ignore_comments(white_move.parser)
         IN  IF comments.outcome = "panic" THEN parser_panic
             ELSE parse_black_move(comments.parser, number, white_move.value)

\* while consume_optional!(self, Token::Period) {}
RECURSIVE consume_periods(_)
consume_periods(self) ==
    IF peek_panics(self) THEN parser_panic
    ELSE IF peek(self).kind = "Period" THEN consume_periods(read(self))
    ELSE parsed(self, <<>>)

\* Parser::parse_move after a move number: the periods and the comments after them
parse_periods(self, number) ==
    IF peek_panics(self) THEN parser_panic
    ELSE IF peek(self).kind # "Period" THEN parse_error("UnexpectedToken", peek(self))
    ELSE LET periods == consume_periods(read(self))
         IN  IF periods.outcome = "panic" THEN parser_panic
             ELSE LET comments == ignore_comments(periods.parser)
                  IN  IF comments.outcome = "panic" THEN parser_panic
                      ELSE parse_white_move(comments.parser, number)

\* Parser::parse_move: consume_value_optional! takes the next token off the
\* stream whether or not it is an Integer
parse_move(self) ==
    LET comments == ignore_comments(self)
    IN  IF comments.outcome = "panic" THEN parser_panic
        ELSE LET next_token == peek(comments.parser)
                 after == read(comments.parser)
             IN  IF next_token.kind = "Integer"
                 THEN parse_periods(after, Some(next_token.value))
                 ELSE parse_white_move(after, None)

\* Parser::parse_move_text_section
RECURSIVE parse_move_text_section(_, _)
parse_move_text_section(self, moves) ==
    IF peek_panics(self) THEN parser_panic
    ELSE IF is_game_end(peek(self)) THEN parsed(self, moves)
    ELSE LET current_move == parse_move(self)
         IN  IF current_move.outcome # "ok" THEN current_move
             ELSE parse_move_text_section(current_move.parser,
                                          Append(moves, current_move.value))

\* Parser::parse_game_result
parse_game_result(self) ==
    LET comments == ignore_comments(self)
    IN  IF comments.outcome = "panic" THEN parser_panic
        ELSE LET next_token == peek(comments.parser)
             IN  IF next_token.kind # "Symbol"
                 THEN parse_error("UnexpectedToken", next_token)
                 ELSE IF GameResult_from_string(next_token.value) = None
                 THEN parse_error("InvalidGameResult", next_token.value)
                 ELSE parsed(read(comments.parser),
                             unwrap(GameResult_from_string(next_token.value)))

\* Parser::parse_tag_pair, where the next token is an OpenBracket
parse_tag_pair(self) ==
    LET after_bracket == read(self)
    IN  IF peek_panics(after_bracket) THEN parse_error("UnexpectedEndOfFile", <<>>)
        ELSE LET name == peek(after_bracket)
                 after_name == read(after_bracket)
             IN  IF name.kind # "Symbol" THEN parse_error("UnexpectedToken", name)
                 ELSE IF peek_panics(after_name) THEN parse_error("UnexpectedEndOfFile", <<>>)
                 ELSE LET value == peek(after_name)
                          after_value == read(after_name)
                      IN  IF value.kind # "String" THEN parse_error("UnexpectedToken", value)
                          ELSE IF peek_panics(after_value) THEN parser_panic
                          ELSE IF peek(after_value).kind # "CloseBracket"
                          THEN parse_error("UnexpectedToken", peek(after_value))
                          ELSE parsed(read(after_value), <<name.value, value.value>>)

\* Parser::parse_tag_pair_section
RECURSIVE parse_tag_pair_section(_, _)
parse_tag_pair_section(self, tag_pairs) ==
    IF peek_panics(self) THEN parser_panic
    ELSE IF peek(self).kind # "OpenBracket" THEN parsed(self, tag_pairs)
    ELSE LET tag_pair == parse_tag_pair(self)
         IN  IF tag_pair.outcome # "ok" THEN tag_pair
             ELSE parse_tag_pair_section(tag_pair.parser, Append(tag_pairs, tag_pair.value))

\* ParsedGame { tags, moves, result }
ParsedGame(tags, moves, result) == [tags |-> tags, moves |-> moves, result |-> result]

\* the end of Parser::parse_game: the result after the moves
parse_game_end(tags, moves) ==
    IF moves.outcome # "ok" THEN moves
    ELSE LET result == parse_game_result(moves.parser)
         IN  IF result.outcome # "ok" THEN result
             ELSE parsed(result.parser, ParsedGame(tags, moves.value, result.value))

\* Parser::parse_game
parse_game(self) ==
    LET tag_pair_section == parse_tag_pair_section(self, <<>>)
    IN  IF tag_pair_section.outcome # "ok" THEN tag_pair_section
        ELSE parse_game_end(tag_pair_section.value,
                            parse_move_text_section(tag_pair_section.parser, <<>>))

\* ---------------------------------------------------------------- the state machine

\* Game::standard_position: rnbqkbnr/pppppppp/8/8/8/8/PPPPPPPP/RNBQKBNR w KQkq - 0 1
StandardFen ==
    <<"r", "n", "b", "q", "k", "b", "n", "r", "/", "p", "p", "p", "p", "p", "p", "p", "p",
      "/", "8", "/", "8", "/", "8", "/", "8", "/", "P", "P", "P", "P", "P", "P", "P", "P",
      "/", "R", "N", "B", "Q", "K", "B", "N", "R", " ", "w", " ", "K", "Q", "k", "q", " ",
      "-", " ", "0", " ", "1">>

\* the Position of test_en_passant_square: rnbqkbnr/ppppppp1/7p/8/4P3/8/PPPP1PPP/RNBQKBNR w KQkq - 0 1
EnPassantFixtureFen ==
    <<"r", "n", "b", "q", "k", "b", "n", "r", "/", "p", "p", "p", "p", "p", "p", "p", "1",
      "/", "7", "p", "/", "8", "/", "4", "P", "3", "/", "8", "/", "P", "P", "P", "P", "1",
      "P", "P", "P", "/", "R", "N", "B", "Q", "K", "B", "N", "R", " ", "w", " ", "K", "Q",
      "k", "q", " ", "-", " ", "0", " ", "1">>

\* the Game of test_moving_into_check: 8/6r1/5K1n/8/3Q4/2b5/8/8 w KQkq - 0 0
MovingIntoCheckFen ==
    <<"8", "/", "6", "r", "1", "/", "5", "K", "1", "n", "/", "8", "/", "3", "Q", "4", "/",
      "2", "b", "5", "/", "8", "/", "8", " ", "w", " ", "K", "Q", "k", "q", " ", "-", " ",
      "0", " ", "0">>

\* the FEN tag of test_pgn_with_set_up_start_with_black_move: rnbqkbnr/pppp1ppp/8/4p3/6P1/5P2/PPPPP2P/RNBQKBNR b KQkq - 0 2
FoolsMateFen ==
    <<"r", "n", "b", "q", "k", "b", "n", "r", "/", "p", "p", "p", "p", "1", "p", "p", "p",
      "/", "8", "/", "4", "p", "3", "/", "6", "P", "1", "/", "5", "P", "2", "/", "P", "P",
      "P", "P", "P", "2", "P", "/", "R", "N", "B", "Q", "K", "B", "N", "R", " ", "b", " ",
      "K", "Q", "k", "q", " ", "-", " ", "0", " ", "2">>

\* the move tokens make_move is called with
Tokens ==
    {<<"e", "4">>,
     <<"e", "5">>,
     <<"f", "5">>,
     <<"e", "x", "f", "6">>,
     <<"h", "6">>,
     <<"N", "c", "3">>,
     <<"N", "c", "6">>,
     <<"R", "b", "1">>,
     <<"Q", "h", "5">>,
     <<"f", "6">>,
     <<"d", "5">>,
     <<"c", "4">>,
     <<"e", "x", "d", "5">>,
     <<"Q", "h", "4">>,
     <<"K", "x", "g", "7">>,
     <<"Q", "e", "5">>,
     <<"O", "-", "O">>,
     <<"O", "-", "O", "-", "O">>}

\* the expected text of test_en_passant_square: rnbqkbnr/ppppp1p1/7p/4Pp2/8/8/PPPP1PPP/RNBQKBNR w KQkq f6 2 2
EnPassantResultFen ==
    <<"r", "n", "b", "q", "k", "b", "n", "r", "/", "p", "p", "p", "p", "p", "1", "p", "1",
      "/", "7", "p", "/", "4", "P", "p", "2", "/", "8", "/", "8", "/", "P", "P", "P", "P",
      "1", "P", "P", "P", "/", "R", "N", "B", "Q", "K", "B", "N", "R", " ", "w", " ", "K",
      "Q", "k", "q", " ", "f", "6", " ", "2", " ", "2">>

\* a stalemate: Black to move, not in check, without a move: 7k/5Q2/6K1/8/8/8/8/8 b - - 0 1
StalemateFen ==
    <<"7", "k", "/", "5", "Q", "2", "/", "6", "K", "1", "/", "8", "/", "8", "/", "8", "/",
      "8", "/", "8", " ", "b", " ", "-", " ", "-", " ", "0", " ", "1">>

StartFens ==
    {StandardFen, EnPassantFixtureFen, EnPassantResultFen, MovingIntoCheckFen, FoolsMateFen,
     StalemateFen}

\* ---------------------------------------------------------------- game/mod.rs: new_from_pgn

\* Game::standard_position
standard_position == from_fen(StandardFen).value

\* pgn_game.fen: the value of the game's FEN tag pair, if it has one
pgn_game_fen(pgn_game) ==
    LET fen_tags == SelectSeq(pgn_game.tags, LAMBDA tag : tag[1] = <<"F", "E", "N">>)
    IN  IF fen_tags = <<>> THEN None ELSE Some(Head(fen_tags)[2])

\* format!("Invalid move in PGN game: {} (move #{})", next_half_move, move_number)
\* and format!("Invalid move in PGN game: {}", next_half_move)
invalid_move_message(next_half_move, number) ==
    LET invalid_move == <<"I", "n", "v", "a", "l", "i", "d", " ", "m", "o", "v", "e", " ",
                          "i", "n", " ", "P", "G", "N", " ", "g", "a", "m", "e", ":", " ">>
    IN  IF is_some(number)
        THEN invalid_move \o next_half_move \o <<" ", "(", "m", "o", "v", "e", " ", "#">>
             \o to_string(unwrap(number)) \o <<")">>
        ELSE invalid_move \o next_half_move

\* the half-moves the two loops of new_from_pgn visit, in their order: for each
\* move its white_move and then its black_move, where present
RECURSIVE half_moves(_)
half_moves(moves) ==
    IF moves = <<>> THEN <<>>
    ELSE LET next_move == Head(moves)
             slots == <<next_move.white_move, next_move.black_move>>
             present == SelectSeq(slots, is_some)
         IN  [k \in 1..Len(present) |->
                 [next_half_move |-> unwrap(present[k]), number |-> next_move.number]]
             \o half_moves(Tail(moves))

\* the loops going on to the next half-move after one make_move refuses
RECURSIVE replay_half_moves_skipping_invalid(_, _)
replay_half_moves_skipping_invalid(position, remaining) ==
    IF remaining = <<>> THEN [ok |-> TRUE, value |-> position]
    ELSE LET made == make_move(position, valid_moves(position), Head(remaining).next_half_move)
         IN  replay_half_moves_skipping_invalid(IF made.ok THEN made.value ELSE position,
                                                Tail(remaining))

\* the loops of new_from_pgn from a Game on: Ok(game), or Err(message) at the
\* first half-move make_move refuses
RECURSIVE replay_half_moves(_, _)
replay_half_moves(position, remaining) ==
    IF remaining = <<>> THEN [ok |-> TRUE, value |-> position]
    ELSE LET made == make_move(position, valid_moves(position), Head(remaining).next_half_move)
         IN  IF made.ok
             THEN replay_half_moves(made.value, Tail(remaining))
             ELSE [ok |-> FALSE,
                   message |-> invalid_move_message(Head(remaining).next_half_move,
                                                    Head(remaining).number)]

\* the closure new_from_pgn maps over the parsed games
replay_game(pgn_game) ==
    LET tag_fen == pgn_game_fen(pgn_game)
        start == IF is_some(tag_fen)
                 THEN from_fen(unwrap(tag_fen))
                 ELSE [ok |-> TRUE, value |-> standard_position]
    IN  IF start.ok
        THEN replay_half_moves(start.value, half_moves(pgn_game.moves))
        ELSE [ok |-> FALSE, message |-> start.message]

\* test_pgn_to_game: [Event "Fool's Mate"]\n\n1. f3 e5 2. g4 Qh4# 0-1
FoolsMatePgn ==
    <<"[", "E", "v", "e", "n", "t", " ", "\"", "F", "o", "o", "l", "'", "s", " ", "M", "a",
      "t", "e", "\"", "]", "\n", "\n", "1", ".", " ", "f", "3", " ", "e", "5", " ", "2", ".",
      " ", "g", "4", " ", "Q", "h", "4", "#", " ", "0", "-", "1">>

\* test_pgn_with_set_up_start_with_black_move:
\* [Event "Fool's Mate"]\n[SetUp "1"]\n[FEN "rnbqkbnr/pppp1ppp/8/4p3/6P1/5P2/PPPPP2P/RNBQKBNR b KQkq - 0 2"]\n\n2... Qh4# 0-1
BlackMovePgn ==
    <<"[", "E", "v", "e", "n", "t", " ", "\"", "F", "o", "o", "l", "'", "s", " ", "M", "a",
      "t", "e", "\"", "]", "\n", "[", "S", "e", "t", "U", "p", " ", "\"", "1", "\"", "]", "\n",
      "[", "F", "E", "N", " ", "\"", "r", "n", "b", "q", "k", "b", "n", "r", "/", "p", "p",
      "p", "p", "1", "p", "p", "p", "/", "8", "/", "4", "p", "3", "/", "6", "P", "1", "/", "5",
      "P", "2", "/", "P", "P", "P", "P", "P", "2", "P", "/", "R", "N", "B", "Q", "K", "B", "N",
      "R", " ", "b", " ", "K", "Q", "k", "q", " ", "-", " ", "0", " ", "2", "\"", "]", "\n",
      "\n", "2", ".", ".", ".", " ", "Q", "h", "4", "#", " ", "0", "-", "1">>

\* test_pgn_with_set_up_start_with_black_move_with_no_move_number:
\* [Event "Fool's Mate"]\n[SetUp "1"]\n[FEN "rnbqkbnr/pppp1ppp/8/4p3/6P1/5P2/PPPPP2P/RNBQKBNR b KQkq - 0 2"]\n\nQh4# 0-1
NoMoveNumberPgn ==
    <<"[", "E", "v", "e", "n", "t", " ", "\"", "F", "o", "o", "l", "'", "s", " ", "M", "a",
      "t", "e", "\"", "]", "\n", "[", "S", "e", "t", "U", "p", " ", "\"", "1", "\"", "]", "\n",
      "[", "F", "E", "N", " ", "\"", "r", "n", "b", "q", "k", "b", "n", "r", "/", "p", "p",
      "p", "p", "1", "p", "p", "p", "/", "8", "/", "4", "p", "3", "/", "6", "P", "1", "/", "5",
      "P", "2", "/", "P", "P", "P", "P", "P", "2", "P", "/", "R", "N", "B", "Q", "K", "B", "N",
      "R", " ", "b", " ", "K", "Q", "k", "q", " ", "-", " ", "0", " ", "2", "\"", "]", "\n",
      "\n", "Q", "h", "4", "#", " ", "0", "-", "1">>

\* test_parse_weird_moves: [Event "Casual Blitz game"]\n\n1. e4e5 e8=Q# 1-0
WeirdMovesPgn ==
    <<"[", "E", "v", "e", "n", "t", " ", "\"", "C", "a", "s", "u", "a", "l", " ", "B", "l",
      "i", "t", "z", " ", "g", "a", "m", "e", "\"", "]", "\n", "\n", "1", ".", " ", "e", "4",
      "e", "5", " ", "e", "8", "=", "Q", "#", " ", "1", "-", "0">>

\* test_parse_move_without_number: [Event "Casual Blitz game"]\n\ne4e5 e8=Q# 1-0
MoveWithoutNumberPgn ==
    <<"[", "E", "v", "e", "n", "t", " ", "\"", "C", "a", "s", "u", "a", "l", " ", "B", "l",
      "i", "t", "z", " ", "g", "a", "m", "e", "\"", "]", "\n", "\n", "e", "4", "e", "5", " ",
      "e", "8", "=", "Q", "#", " ", "1", "-", "0">>

\* the move text of lexes_lichess_pgns: {[#]} 44. Bd1 Kd4+ 45. Kf1 Nh3#   0-1
CommentedPgn ==
    <<"{", "[", "#", "]", "}", " ", "4", "4", ".", " ", "B", "d", "1", " ", "K", "d", "4", "+",
      " ", "4", "5", ".", " ", "K", "f", "1", " ", "N", "h", "3", "#", " ", " ", " ", "0", "-",
      "1">>

\* a game with the result marker *: 1. e4 e5 *
UnknownResultPgn ==
    <<"1", ".", " ", "e", "4", " ", "e", "5", " ", "*">>

\* a game with the result marker 1/2-1/2: 1. e4 e5 1/2-1/2
DrawPgn ==
    <<"1", ".", " ", "e", "4", " ", "e", "5", " ", "1", "/", "2", "-", "1", "/", "2">>

\* a game whose text ends before a result marker: 1. e4 e5
NoResultPgn ==
    <<"1", ".", " ", "e", "4", " ", "e", "5">>

\* a tag pair and nothing after it: [Event "XXV Open"]
TagsOnlyPgn ==
    <<"[", "E", "v", "e", "n", "t", " ", "\"", "X", "X", "V", " ", "O", "p", "e", "n", "\"",
      "]">>

\* a tag pair that the end of the text cuts short: [Event
OpenTagPgn ==
    <<"[", "E", "v", "e", "n", "t">>

\* two games, the first with a second half-move that is not valid: 1. e4 e4 1-0\n1. e4 e5 0-1
TwoGamesPgn ==
    <<"1", ".", " ", "e", "4", " ", "e", "4", " ", "1", "-", "0", "\n", "1", ".", " ", "e",
      "4", " ", "e", "5", " ", "0", "-", "1">>

\* a game whose first half-move is not valid and whose second would be: 1. e5 e4 1-0
FirstMoveInvalidPgn ==
    <<"1", ".", " ", "e", "5", " ", "e", "4", " ", "1", "-", "0">>

\* the empty text: 
EmptyPgn ==
    <<>>

PgnTexts ==
    {FoolsMatePgn, BlackMovePgn, NoMoveNumberPgn, WeirdMovesPgn,
     MoveWithoutNumberPgn, CommentedPgn, UnknownResultPgn, DrawPgn,
     NoResultPgn, TagsOnlyPgn, OpenTagPgn, TwoGamesPgn,
     FirstMoveInvalidPgn, EmptyPgn}

\* Game::new_from_fen on each start text
Init ==
    \E start \in StartFens :
        /\ from_fen(start).ok
        /\ game = from_fen(start).value
        /\ fen = start
        /\ history = <<>>
        /\ last_result = "New"
        /\ pgn_text = <<>>
        /\ lexer = Lexer_new(<<>>)
        /\ tokens = <<>>
        /\ parser = Parser_new(<<>>)
        /\ pgn_games = <<>>
        /\ games = <<>>
        /\ returned = None
        /\ pc = "idle"
        /\ square_notation = <<>>

\* game = game.make_move(token): a new Game on Ok, the Game kept on Err
MakeMove(token, moves) ==
    /\ Len(history) < MaxPlies
    /\ \E result \in {make_move(game, moves, token)} :
           IF result.ok
           THEN /\ game' = result.value
                /\ history' = Append(history, [token |-> token, move |-> result.move])
                /\ last_result' = "Ok"
           ELSE /\ last_result' = "Err"
                /\ UNCHANGED <<game, history>>
    /\ UNCHANGED <<fen, pgn_vars, square_notation>>

\* valid_moves() is evaluated once for the position and serves every token
Next ==
    \E moves \in {valid_moves(game)} :
        \E token \in Tokens : MakeMove(token, moves)

Spec == Init /\ [][Next]_vars

\* Game::new_from_pgn(text) is entered: the Lexer is constructed
PgnInit ==
    \E text \in PgnTexts :
        /\ pgn_text = text
        /\ lexer = Lexer_new(text)
        /\ tokens = <<>>
        /\ parser = Parser_new(<<>>)
        /\ pgn_games = <<>>
        /\ games = <<>>
        /\ returned = None
        /\ pc = "lex"
        /\ game = standard_position
        /\ fen = StandardFen
        /\ history = <<>>
        /\ last_result = "New"
        /\ square_notation = <<>>

\* one pass of the loop of Lexer::lex; at the end of the text new_from_pgn
\* hands the tokens to Parser::new, at a LexerError it returns Err
LexPass ==
    /\ pc = "lex"
    /\ \E pass \in {lex_pass(lexer)} :
           /\ lexer' = pass.lexer
           /\ tokens' = tokens \o pass.pushed
           /\ IF pass.outcome = "error"
              THEN /\ returned' = Some([ok |-> FALSE, error |-> pass.error])
                   /\ pc' = "returned"
                   /\ UNCHANGED parser
              ELSE IF pass.outcome = "break"
              THEN /\ parser' = Parser_new(tokens')
                   /\ pc' = "parse"
                   /\ UNCHANGED returned
              ELSE UNCHANGED <<parser, returned, pc>>
    /\ UNCHANGED <<pgn_text, pgn_games, games, game_vars, square_notation>>

\* one pass of the loop of Parser::parse: the loop ends at EndOfFile with
\* Ok(games), parse_game adds a game, a ParseError makes new_from_pgn return Err
\* and drops the games parsed so far, and peek panics on an empty token list
ParseGame ==
    /\ pc = "parse"
    /\ IF peek_panics(parser)
       THEN /\ pc' = "panic"
            /\ UNCHANGED <<parser, pgn_games, returned>>
       ELSE IF peek(parser).kind = "EndOfFile"
       THEN /\ pc' = IF pgn_games = <<>> THEN "returned" ELSE "replay"
            /\ returned' = IF pgn_games = <<>> THEN Some([ok |-> TRUE, value |-> <<>>]) ELSE None
            /\ UNCHANGED <<parser, pgn_games>>
       ELSE \E parsed_game \in {parse_game(parser)} :
                IF parsed_game.outcome = "ok"
                THEN /\ parser' = parsed_game.parser
                     /\ pgn_games' = Append(pgn_games, parsed_game.value)
                     /\ UNCHANGED <<pc, returned>>
                ELSE IF parsed_game.outcome = "err"
                THEN /\ returned' = Some([ok |-> FALSE, error |-> parsed_game.error])
                     /\ pgn_games' = <<>>
                     /\ pc' = "returned"
                     /\ UNCHANGED parser
                ELSE /\ pc' = "panic"
                     /\ UNCHANGED <<parser, pgn_games, returned>>
    /\ UNCHANGED <<pgn_text, lexer, tokens, games, game_vars, square_notation>>

\* the closure of new_from_pgn on the next parsed game; after the last game
\* new_from_pgn returns Ok with the games' results
ReplayGame ==
    /\ pc = "replay"
    /\ \E replayed \in {replay_game(pgn_games[Len(games) + 1])} :
           /\ games' = Append(games, replayed)
           /\ IF Len(games') = Len(pgn_games)
              THEN /\ returned' = Some([ok |-> TRUE, value |-> games'])
                   /\ pc' = "returned"
              ELSE UNCHANGED <<returned, pc>>
    /\ UNCHANGED <<pgn_text, lexer, tokens, parser, pgn_games, game_vars, square_notation>>

PgnNext == LexPass \/ ParseGame \/ ReplayGame

PgnSpec == PgnInit /\ [][PgnNext]_vars

\* the ranks of the standard placement, rank 8 first
StandardRanks ==
    <<<<"r", "n", "b", "q", "k", "b", "n", "r">>,
      <<"p", "p", "p", "p", "p", "p", "p", "p">>,
      <<"8">>, <<"8">>, <<"8">>, <<"8">>,
      <<"P", "P", "P", "P", "P", "P", "P", "P">>,
      <<"R", "N", "B", "Q", "K", "B", "N", "R">>>>

\* the rank fields one rank of the placement is replaced with: fields of 8
\* squares, of fewer and of more
RankFields ==
    {<<"8">>, <<"7">>, <<"9">>, <<"0", "8">>, <<"4", "4">>, <<"4", "5">>, <<"p", "7">>,
     <<"3", "p", "4">>, <<"7", "p", "p">>, <<"p", "p", "p", "p", "p", "p", "p", "p">>}

\* the rank fields joined by '/'
RECURSIVE join_ranks(_)
join_ranks(ranks) ==
    IF Len(ranks) = 1 THEN Head(ranks)
    ELSE Head(ranks) \o <<"/">> \o join_ranks(Tail(ranks))

\* the standard FEN text with the k-th rank field replaced
fen_with_rank(k, field) ==
    join_ranks([StandardRanks EXCEPT ![k] = field])
    \o <<" ", "w", " ", "K", "Q", "k", "q", " ", "-", " ", "0", " ", "1">>

\* the texts Position::from_fen is called with
FenTexts == {fen_with_rank(k, field) : k \in 1..8, field \in RankFields}

\* Position::from_fen(text) is about to be called
FenInit ==
    \E text \in FenTexts :
        /\ fen = text
        /\ game = standard_position
        /\ history = <<>>
        /\ last_result = "New"
        /\ pgn_text = <<>>
        /\ lexer = Lexer_new(<<>>)
        /\ tokens = <<>>
        /\ parser = Parser_new(<<>>)
        /\ pgn_games = <<>>
        /\ games = <<>>
        /\ returned = None
        /\ pc = "from_fen"
        /\ square_notation = <<>>

\* Position::from_fen(fen) returns
FromFen ==
    /\ pc = "from_fen"
    /\ returned' = Some(from_fen(fen))
    /\ pc' = "returned"
    /\ UNCHANGED <<game_vars, pgn_text, lexer, tokens, parser, pgn_games, games,
                   square_notation>>

FenNext == FromFen

FenSpec == FenInit /\ [][FenNext]_vars

\* ---------------------------------------------------------------- game/mod.rs: one make_move on a position read from FEN

\* after 1. d4 d5 2. Nf3 Nf6: the knights on b1 and f3 both reach d2, those on b8 and f6 both reach d7: rnbqkb1r/ppp1pppp/5n2/3p4/3P4/5N2/PPP1PPPP/RNBQKB1R
TwoKnightsPlacement ==
    <<"r", "n", "b", "q", "k", "b", "1", "r", "/", "p", "p", "p", "1", "p", "p", "p", "p",
      "/", "5", "n", "2", "/", "3", "p", "4", "/", "3", "P", "4", "/", "5", "N", "2", "/",
      "P", "P", "P", "1", "P", "P", "P", "P", "/", "R", "N", "B", "Q", "K", "B", "1", "R">>

\* both kings and all four rooks at home with nothing between them: r3k2r/pppppppp/8/8/8/8/PPPPPPPP/R3K2R
CastlingReadyPlacement ==
    <<"r", "3", "k", "2", "r", "/", "p", "p", "p", "p", "p", "p", "p", "p", "/", "8", "/",
      "8", "/", "8", "/", "8", "/", "P", "P", "P", "P", "P", "P", "P", "P", "/", "R", "3",
      "K", "2", "R">>

\* pawns of both colors on their home ranks, side by side in the middle, one step from the last rank and on it: P7/1P1p4/8/4Pp2/2pP4/8/1p4P1/p7
EdgePawnsPlacement ==
    <<"P", "7", "/", "1", "P", "1", "p", "4", "/", "8", "/", "4", "P", "p", "2", "/", "2",
      "p", "P", "4", "/", "8", "/", "1", "p", "4", "P", "1", "/", "p", "7">>

\* the board of test_rook_moves: 8/8/5R2/8/5p2/8/8/8
RookPlacement ==
    <<"8", "/", "8", "/", "5", "R", "2", "/", "8", "/", "5", "p", "2", "/", "8", "/", "8",
      "/", "8">>

\* the board of test_rook_moves_cannot_move_past_self_piece: 8/8/5R2/8/5P2/8/8/8
RookBehindOwnPawnPlacement ==
    <<"8", "/", "8", "/", "5", "R", "2", "/", "8", "/", "5", "P", "2", "/", "8", "/", "8",
      "/", "8">>

\* the board of test_queen_moves: 8/4P3/5Q2/4p3/5P2/8/8/8
QueenPlacement ==
    <<"8", "/", "4", "P", "3", "/", "5", "Q", "2", "/", "4", "p", "3", "/", "5", "P", "2",
      "/", "8", "/", "8", "/", "8">>

\* the board of test_bishop_moves: 8/4P3/5B2/4p3/5P2/8/8/8
BishopPlacement ==
    <<"8", "/", "4", "P", "3", "/", "5", "B", "2", "/", "4", "p", "3", "/", "5", "P", "2",
      "/", "8", "/", "8", "/", "8">>

\* the board of test_generating_pawn_moves_with_black: 8/2p1p3/4P3/8/6p1/2P5/3PP3/8
PawnsPlacement ==
    <<"8", "/", "2", "p", "1", "p", "3", "/", "4", "P", "3", "/", "8", "/", "6", "p", "1",
      "/", "2", "P", "5", "/", "3", "P", "P", "3", "/", "8">>

\* the board of test_pawn_takes: 8/8/5p2/4P3/8/8/8/8
PawnTakesPlacement ==
    <<"8", "/", "8", "/", "5", "p", "2", "/", "4", "P", "3", "/", "8", "/", "8", "/", "8",
      "/", "8">>

\* a FEN text: the placement, the side to move, the castling field and the
\* en-passant field, with the counters 0 and 1
fen_text(placement, side, castling, target) ==
    placement \o <<" ", side, " ">> \o castling \o <<" ">> \o target \o <<" ", "0", " ", "1">>

\* the en-passant fields: none, and a file letter with a digit
TargetTexts ==
    {<<"-">>} \cup {<<file_label, Digits[d]>> : file_label \in FileClass, d \in 2..10}

\* the castling fields
CastlingTexts == {<<"-">>, <<"K", "Q", "k", "q">>, <<"K", "q">>}

\* the texts Game::new_from_fen is called with
MoveFens ==
    {fen_text(placement, side, <<"K", "Q", "k", "q">>, <<"-">>) :
        placement \in {TwoKnightsPlacement, RookPlacement, RookBehindOwnPawnPlacement,
                       QueenPlacement, BishopPlacement, PawnsPlacement, PawnTakesPlacement},
        side \in {"w", "b"}}
    \cup {fen_text(CastlingReadyPlacement, side, castling, <<"-">>) :
            side \in {"w", "b"}, castling \in CastlingTexts}
    \cup {fen_text(EdgePawnsPlacement, side, <<"-">>, target) :
            side \in {"w", "b"}, target \in TargetTexts}

\* the move tokens make_move is called with: tokens with an origin hint and the
\* same tokens without it, castling tokens, tokens with a promotion suffix
MoveTokens ==
    {<<"N", "d", "2">>, <<"N", "b", "d", "2">>, <<"N", "f", "d", "2">>,
     <<"N", "1", "d", "2">>, <<"N", "b", "1", "d", "2">>,
     <<"N", "d", "7">>, <<"N", "b", "d", "7">>, <<"N", "f", "d", "7">>,
     <<"N", "8", "d", "7">>,
     <<"N", "c", "3">>, <<"N", "b", "c", "3">>, <<"N", "g", "c", "3">>,
     <<"e", "3">>, <<"e", "2", "e", "3">>, <<"d", "e", "3">>,
     <<"R", "d", "8">>, <<"R", "a", "d", "8">>, <<"R", "h", "d", "8">>,
     <<"R", "8", "d", "8">>,
     <<"e", "6">>, <<"e", "5", "e", "6">>,
     <<"e", "x", "f", "6">>, <<"e", "5", "x", "f", "6">>, <<"5", "x", "f", "6">>,
     <<"O", "-", "O">>, <<"O", "-", "O", "-", "O">>,
     <<"O", "-", "O", "+">>, <<"O", "-", "O", "#">>,
     <<"O", "-", "O", "-", "O", "+">>, <<"O", "-", "O", "-", "O", "#">>,
     <<"e", "8">>, <<"e", "8", "=", "Q">>, <<"e", "8", "=", "N">>,
     <<"b", "8">>, <<"b", "8", "=", "Q">>, <<"b", "1">>, <<"b", "1", "=", "Q">>}

\* The Positions a Game is constructed with for a text: the Position
\* Game::new_from_fen reads from it and, for the board of the edge pawns, that
\* Position handed to Game::new with an en-passant target on rank 1, which no
\* text the reader accepts expresses.
positions_of(start) ==
    IF ~from_fen(start).ok THEN {}
    ELSE {from_fen(start).value}
         \cup (IF start \in {fen_text(EdgePawnsPlacement, side, <<"-">>, <<"-">>) :
                                side \in {"w", "b"}}
               THEN {[from_fen(start).value EXCEPT !.en_passant_square = Some(Square(0, file))] :
                        file \in 0..7}
               ELSE {})

\* Game::new_from_fen or Game::new on each Position, make_move not yet called
MoveInit ==
    \E start \in MoveFens :
        /\ game \in positions_of(start)
        /\ fen = start
        /\ history = <<>>
        /\ last_result = "New"
        /\ pgn_text = <<>>
        /\ lexer = Lexer_new(<<>>)
        /\ tokens = <<>>
        /\ parser = Parser_new(<<>>)
        /\ pgn_games = <<>>
        /\ games = <<>>
        /\ returned = None
        /\ pc = "make_move"
        /\ square_notation = <<>>

\* game = game.make_move(token), once: a new Game on Ok, the Game kept on Err
MakeOneMove(token, moves) ==
    /\ pc = "make_move"
    /\ \E result \in {make_move(game, moves, token)} :
           IF result.ok
           THEN /\ game' = result.value
                /\ history' = Append(history, [token |-> token, move |-> result.move])
                /\ last_result' = "Ok"
           ELSE /\ last_result' = "Err"
                /\ UNCHANGED <<game, history>>
    /\ pc' = "returned"
    /\ UNCHANGED <<fen, pgn_text, lexer, tokens, parser, pgn_games, games, returned,
                   square_notation>>

\* make_move is called with one of the tokens, or with the notation() of one of
\* the moves valid_moves() lists
MoveNext ==
    \E moves \in {valid_moves(game)} :
        \/ \E token \in MoveTokens : MakeOneMove(token, moves)
        \/ \E k \in 1..Len(moves) : MakeOneMove(notation(moves[k]), moves)

MoveSpec == MoveInit /\ [][MoveNext]_vars


\* ---------------------------------------------------------------- game/mod.rs: a game from the standard position

\* the move tokens of the games played from the standard position: pawn steps
\* and double steps, captures, captures en passant by either side, a check by
\* the queen, the king's capture of it and a move onto the king's square
GameTokens ==
    {<<"e", "4">>, <<"e", "5">>, <<"d", "5">>, <<"f", "5">>, <<"d", "4">>, <<"c", "4">>,
     <<"e", "x", "d", "5">>, <<"e", "x", "d", "6">>, <<"e", "x", "f", "6">>,
     <<"d", "x", "c", "3">>, <<"N", "f", "6">>,
     <<"Q", "h", "5">>, <<"Q", "x", "d", "5">>, <<"Q", "x", "f", "7">>,
     <<"K", "x", "f", "7">>, <<"Q", "x", "e", "8">>}

\* Game::new(Game::standard_position())
GameInit ==
    /\ game = standard_position
    /\ fen = StandardFen
    /\ history = <<>>
    /\ last_result = "New"
    /\ pgn_text = <<>>
    /\ lexer = Lexer_new(<<>>)
    /\ tokens = <<>>
    /\ parser = Parser_new(<<>>)
    /\ pgn_games = <<>>
    /\ games = <<>>
    /\ returned = None
    /\ pc = "game"
    /\ square_notation = <<>>

\* game = game.make_move(token) in a game from the standard position
PlayMove(token, moves) ==
    /\ Len(history) < MaxGamePlies
    /\ \E result \in {make_move(game, moves, token)} :
           IF result.ok
           THEN /\ game' = result.value
                /\ history' = Append(history, [token |-> token, move |-> result.move])
                /\ last_result' = "Ok"
           ELSE /\ last_result' = "Err"
                /\ UNCHANGED <<game, history>>
    /\ UNCHANGED <<fen, pgn_vars, square_notation>>

GameNext ==
    \E moves \in {valid_moves(game)} :
        \E token \in GameTokens : PlayMove(token, moves)

GameSpec == GameInit /\ [][GameNext]_vars


\* ---------------------------------------------------------------- models.rs: Square::from_notation

\* the characters tried as file label: a..h, the letters beside them, upper
\* case, a digit and the capture mark
FileLabels == FileClass \cup {"i", "z", "A", "H", "4", "x"}

\* the characters tried as rank: the ten digits, a letter and a dash
RankChars == {Digits[d] : d \in 1..10} \cup {"a", "-"}

\* the texts Square::from_notation is called with: every pair of a file label
\* and a rank character, and texts of fewer and of more characters
SquareTexts ==
    {<<file_label, rank_char>> : file_label \in FileLabels, rank_char \in RankChars}
    \cup {<<>>, <<"e">>, <<"4">>, <<"e", "4", "x">>, <<"e", "1", "0">>}

\* Square::from_notation(text) is about to be called
SquareInit ==
    \E text \in SquareTexts :
        /\ square_notation = text
        /\ game = standard_position
        /\ fen = StandardFen
        /\ history = <<>>
        /\ last_result = "New"
        /\ pgn_text = <<>>
        /\ lexer = Lexer_new(<<>>)
        /\ tokens = <<>>
        /\ parser = Parser_new(<<>>)
        /\ pgn_games = <<>>
        /\ games = <<>>
        /\ returned = None
        /\ pc = "from_notation"

\* Square::from_notation(square_notation) returns
FromNotation ==
    /\ pc = "from_notation"
    /\ returned' = Some(Square_from_notation(square_notation))
    /\ pc' = "returned"
    /\ UNCHANGED <<game_vars, pgn_text, lexer, tokens, parser, pgn_games, games,
                   square_notation>>

SquareNext == FromNotation

SquareSpec == SquareInit /\ [][SquareNext]_vars


\* ---------------------------------------------------------------- reference definitions of the properties

\* number of successful make_move calls since construction
plies == Len(history)

\* the move the last successful make_move applied (history is non-empty)
last_move == history[Len(history)].move

Abs(n) == IF n < 0 THEN -n ELSE n

Sign(n) == IF n < 0 THEN -1 ELSE IF n > 0 THEN 1 ELSE 0

Squares == {Square(rank, file) : rank \in 0..7, file \in 0..7}

\* what stands on a square of a position
piece_on(position, square) == position.board[(7 - square.rank) * 8 + square.file + 1]

WhitePawn == Some(OccupiedSquare("Pawn", "White"))

\* The rules of chess, stated without the move generator: the piece standing on
\* `from` attacks the square `to`.
Attacks(position, from, to) ==
    LET occupancy == piece_on(position, from)
        rank_step == to.rank - from.rank
        file_step == to.file - from.file
        distance == IF Abs(rank_step) > Abs(file_step) THEN Abs(rank_step) ELSE Abs(file_step)
        straight == (rank_step = 0) # (file_step = 0)
        diagonal == Abs(rank_step) = Abs(file_step) /\ rank_step # 0
        clear == \A k \in 1..6 :
                     k < distance =>
                         piece_on(position, Square(from.rank + k * Sign(rank_step),
                                                   from.file + k * Sign(file_step))) = None
    IN  /\ occupancy # None
        /\ CASE unwrap(occupancy).piece = "Pawn" ->
                    /\ Abs(file_step) = 1
                    /\ rank_step = (IF unwrap(occupancy).color = "White" THEN 1 ELSE -1)
              [] unwrap(occupancy).piece = "Knight" ->
                    {Abs(rank_step), Abs(file_step)} = {1, 2}
              [] unwrap(occupancy).piece = "King" -> distance = 1
              [] unwrap(occupancy).piece = "Rook" -> straight /\ clear
              [] unwrap(occupancy).piece = "Bishop" -> diagonal /\ clear
              [] unwrap(occupancy).piece = "Queen" -> (straight \/ diagonal) /\ clear

\* a king of the color stands on a square a piece of the other color attacks
KingAttacked(position, color) ==
    \E king \in Squares :
        /\ piece_on(position, king) = Some(OccupiedSquare("King", color))
        /\ \E attacker \in Squares :
               /\ piece_on(position, attacker) # None
               /\ unwrap(piece_on(position, attacker)).color = opposite(color)
               /\ Attacks(position, attacker, king)

\* the set of the elements of a sequence
Range(sequence) == {sequence[k] : k \in 1..Len(sequence)}

\* ---------------------------------------------------------------- C1

\* C1: in every reachable position, applying any move that valid_moves() returns
\* gives a position where the mover's king is not in check: in_check(mover) is
\* false there, and no piece of the other side attacks the mover's king.
C1NoLegalMoveLeavesKingInCheck ==
    \A moves \in {valid_moves(game)} :
        \A k \in 1..Len(moves) :
            \A after \in {make_valid_move(game, moves[k])} :
                /\ moves[k].color = game.next_to_move
                /\ ~in_check(after, moves[k].color)
                /\ ~KingAttacked(after, moves[k].color)

\* a position of a game from the standard position where the filter has dropped
\* pseudo-legal moves (after e4, e5, Qh5 the pawn on f7 is pinned)
C1Witness ==
    /\ fen = StandardFen
    /\ plies = 3
    /\ Len(valid_moves(game)) < Len(pseudo_legal_moves(game, game.next_to_move))

\* ---------------------------------------------------------------- C2

KxG7 == <<"K", "x", "g", "7">>

\* the five moves test_moving_into_check expects
MovingIntoCheckMoves ==
    {KxG7, <<"K", "e", "6">>, <<"K", "e", "5">>, <<"Q", "x", "c", "3">>, <<"Q", "e", "5">>}

\* C2: valid_moves() holds exactly the pseudo-legal moves of the side to move
\* whose application leaves no piece attacking the mover's king, and in the
\* fixture of test_moving_into_check these are Kxg7, Ke6, Ke5, Qxc3 and Qe5.
C2ExactlyTheNonExposingMoves ==
    \A moves \in {valid_moves(game)} :
        /\ Range(moves) =
               {m \in Range(pseudo_legal_moves(game, game.next_to_move)) :
                    ~KingAttacked(make_valid_move(game, m), game.next_to_move)}
        /\ (fen = MovingIntoCheckFen /\ plies = 0) =>
               /\ Len(moves) = 5
               /\ {notation(moves[k]) : k \in 1..Len(moves)} = MovingIntoCheckMoves

\* the fixture position, where exposing moves exist and are absent
C2Witness ==
    /\ fen = MovingIntoCheckFen
    /\ plies = 0
    /\ Len(pseudo_legal_moves(game, "White")) > 5
    /\ Len(valid_moves(game)) = 5

\* ---------------------------------------------------------------- C3

\* C3: in the standard initial position, White to move, valid_moves() returns
\* exactly 20 moves, 16 of pawns and 4 of knights, no move twice.
C3TwentyOpeningMoves ==
    (fen = StandardFen /\ plies = 0) =>
        \A moves \in {valid_moves(game)} :
            /\ game.next_to_move = "White"
            /\ Len(moves) = 20
            /\ Cardinality({k \in 1..Len(moves) : moves[k].piece = "Pawn"}) = 16
            /\ Cardinality({k \in 1..Len(moves) : moves[k].piece = "Knight"}) = 4
            /\ Cardinality(Range(moves)) = Len(moves)

\* the standard initial position with its moves generated
C3Witness ==
    /\ fen = StandardFen
    /\ plies = 0
    /\ game = from_fen(StandardFen).value
    /\ valid_moves(game) # <<>>

\* ---------------------------------------------------------------- C4

\* the piece a token names: its leading piece letter, a pawn without one
TokenPiece(token) ==
    CASE token[1] = "N" -> "Knight"
      [] token[1] = "B" -> "Bishop"
      [] token[1] = "R" -> "Rook"
      [] token[1] = "Q" -> "Queen"
      [] token[1] = "K" -> "King"
      [] OTHER          -> "Pawn"

\* the token holds an x
TokenTakes(token) == \E k \in 1..Len(token) : token[k] = "x"

\* the square a token ends with: file a..h and rank 1..8, None for a castling token
TokenDestination(token) ==
    LET file_label == token[Len(token) - 1]
        rank_label == token[Len(token)]
    IN  IF /\ \E file \in 0..7 : FILE_LABELS[file + 1] = file_label
           /\ \E rank \in 0..7 : Digits[rank + 2] = rank_label
        THEN Some(Square(CHOOSE rank \in 0..7 : Digits[rank + 2] = rank_label,
                         CHOOSE file \in 0..7 : FILE_LABELS[file + 1] = file_label))
        ELSE None

\* the moves of valid_moves() a token describes: same piece, same destination,
\* a capture exactly when the token holds an x
TokenMatches(moves, token) ==
    {k \in 1..Len(moves) :
        /\ moves[k].piece = TokenPiece(token)
        /\ Some(moves[k].to) = TokenDestination(token)
        /\ is_some(moves[k].takes) = TokenTakes(token)}

\* C4: make_move(token) succeeds exactly when one move of valid_moves() has the
\* token's piece, destination and capture flag, and then gives the position
\* that move leads to; with no such move or several it fails.
C4MakeMoveIffOneMatch ==
    \A moves \in {valid_moves(game)} :
        \A token \in Tokens :
            \A result \in {make_move(game, moves, token)} :
                /\ result.ok <=> Cardinality(TokenMatches(moves, token)) = 1
                /\ result.ok =>
                       \A k \in TokenMatches(moves, token) :
                           result.value = make_valid_move(game, moves[k])

\* ---------------------------------------------------------------- C5

\* C5: in a game from the standard position, the notation() of a valid move that
\* no other valid move shares resolves, by from_notation, to a move with the
\* same origin, destination and piece, whatever the destination's rank.
C5NotationResolvesBack ==
    fen = StandardFen =>
        \A moves \in {valid_moves(game)} :
            \A texts \in {[k \in 1..Len(moves) |-> notation(moves[k])]} :
                \A k \in 1..Len(moves) :
                    (\A other \in 1..Len(moves) : other # k => texts[other] # texts[k]) =>
                        \A found \in {from_notation(moves, texts[k])} :
                            /\ found.ok
                            /\ found.value.from = moves[k].from
                            /\ found.value.to = moves[k].to
                            /\ found.value.piece = moves[k].piece

\* ---------------------------------------------------------------- C6

\* C6: writing a reachable position as FEN and reading the text back succeeds and
\* gives the same position, and reading a canonical FEN text (each start text,
\* each text to_fen writes) and writing it again gives the same text.
C6FenRoundTrip ==
    \A text \in {to_fen(game)} :
        \A read_back \in {from_fen(text)} :
            /\ read_back.ok
            /\ read_back.value = game
            /\ to_fen(read_back.value) = text
            /\ to_fen(from_fen(fen).value) = fen

\* a position reached by play that holds an en-passant target and differs from
\* the start text
C6Witness ==
    /\ plies > 0
    /\ is_some(game.en_passant_square)
    /\ to_fen(game) # fen
    /\ from_fen(to_fen(game)).ok

\* ---------------------------------------------------------------- C7

\* C7: when an en-passant target s stands, each pawn of the side to move that is
\* diagonally behind s has a generated move onto s that takes a pawn en passant,
\* and applying it empties the passed pawn's square (the file of s, the rank the
\* capturing pawn leaves) and the origin and puts the capturing pawn on s; a
\* capture played en passant has done so; in the fixture, after e5 and f5 the
\* target is f6 and exf6 leaves f5 empty and the white pawn on f6.
C7EnPassantRemovesPassedPawn ==
    /\ is_some(game.en_passant_square) =>
           \A s \in {unwrap(game.en_passant_square)} :
               \A from \in Squares :
                   (/\ piece_on(game, from) = Some(OccupiedSquare("Pawn", game.next_to_move))
                    /\ from.rank + (IF game.next_to_move = "White" THEN 1 ELSE -1) = s.rank
                    /\ Abs(from.file - s.file) = 1) =>
                       \A capture \in {ValidMove(game.next_to_move, from, s, "Pawn",
                                                  Some("Pawn"), TRUE, None)} :
                           \A after \in {make_valid_move(game, capture)} :
                               /\ capture \in Range(possible_pawn_moves(game, from,
                                                                         game.next_to_move))
                               /\ piece_on(game, s) = None
                               /\ piece_on(game, Square(from.rank, s.file)) =
                                      Some(OccupiedSquare("Pawn", opposite(game.next_to_move)))
                               /\ piece_on(after, Square(from.rank, s.file)) = None
                               /\ piece_on(after, from) = None
                               /\ piece_on(after, s) =
                                      Some(OccupiedSquare("Pawn", game.next_to_move))
    /\ (history # <<>> /\ last_move.takes_en_passant) =>
           /\ piece_on(game, Square(last_move.from.rank, last_move.to.file)) = None
           /\ piece_on(game, last_move.from) = None
           /\ piece_on(game, last_move.to) = Some(OccupiedSquare("Pawn", last_move.color))
    /\ (/\ fen = EnPassantFixtureFen
        /\ plies >= 2
        /\ history[1].token = <<"e", "5">>
        /\ history[2].token = <<"f", "5">>) =>
           /\ plies = 2 => game.en_passant_square = Some(Square(5, 5))
           /\ (plies = 3 /\ history[3].token = <<"e", "x", "f", "6">>) =>
                  /\ piece_on(game, Square(4, 5)) = None
                  /\ piece_on(game, Square(4, 4)) = None
                  /\ piece_on(game, Square(5, 5)) = WhitePawn

\* the fixture after e5, f5 and the capture exf6
C7Witness ==
    /\ fen = EnPassantFixtureFen
    /\ plies = 3
    /\ last_move.takes_en_passant
    /\ last_move.to = Square(5, 5)

\* ---------------------------------------------------------------- C8

\* C8: from the fixture of test_en_passant_square, after "e5" and "f5" to_fen()
\* is rnbqkbnr/ppppp1p1/7p/4Pp2/8/8/PPPP1PPP/RNBQKBNR w KQkq f6 2 2.
C8FenAfterE5F5 ==
    (/\ fen = EnPassantFixtureFen
     /\ plies = 2
     /\ history[1].token = <<"e", "5">>
     /\ history[2].token = <<"f", "5">>) =>
        to_fen(game) = EnPassantResultFen

\* ---------------------------------------------------------------- C9

\* a pawn move of two ranks
DoubleStep(m) == m.piece = "Pawn" /\ Abs(m.to.rank - m.from.rank) = 2

\* C9: after a successful make_move the en-passant target is the square the pawn
\* passed over if the move was a pawn double-step, and None after any other
\* move, whatever the target was before.
C9EnPassantTargetLivesOnePly ==
    history # <<>> =>
        game.en_passant_square =
            IF DoubleStep(last_move)
            THEN Some(Square((last_move.from.rank + last_move.to.rank) \div 2,
                             last_move.from.file))
            ELSE None

\* a double-step followed by another move: the target it installed is gone
C9Witness ==
    /\ plies >= 2
    /\ DoubleStep(history[plies - 1].move)
    /\ ~DoubleStep(last_move)
    /\ game.en_passant_square = None

\* ---------------------------------------------------------------- C10

\* a pawn move or a capture
Resetting(m) == m.piece = "Pawn" \/ is_some(m.takes)

\* the number of moves made since the last pawn move or capture
QuietRun == Cardinality({k \in 1..plies : \A j \in k..plies : ~Resetting(history[j].move)})

\* the clock of the last position equals the plies since the last pawn move or
\* capture, added to the clock of the start text if there was none
C10ClockCountsQuietPlies ==
    game.half_move_clock =
        IF QuietRun = plies
        THEN from_fen(fen).value.half_move_clock + plies
        ELSE QuietRun

\* a successful make_move sets the clock to 0 after a pawn move or a capture and
\* to the previous clock plus 1 otherwise
C10ClockStep ==
    history' # history =>
        game'.half_move_clock =
            IF Resetting(history'[Len(history')].move) THEN 0 ELSE game.half_move_clock + 1

BlackMoves == {k \in 1..plies : history[k].move.color = "Black"}

\* the counter of the last position is the counter of the start text plus the
\* number of Black moves made
C11CounterCountsBlackMoves ==
    game.full_move_counter = from_fen(fen).value.full_move_counter + Cardinality(BlackMoves)

\* a successful make_move adds 1 to the counter if Black moved and leaves it
\* alone if White moved
C11CounterStep ==
    history' # history =>
        game'.full_move_counter =
            IF game.next_to_move = "Black"
            THEN game.full_move_counter + 1
            ELSE game.full_move_counter

\* C11: after any successful make_move the full-move counter is the previous
\* counter plus 1 if the mover was Black and the previous counter if the mover
\* was White; over any sequence of moves it grows by exactly the number of Black
\* moves.
C11FullMoveCounter == [][C11CounterStep]_vars /\ []C11CounterCountsBlackMoves

\* White moved and the counter stayed, Black moved and it grew by one
C11Witness ==
    /\ plies = 2
    /\ history[1].move.color = "White"
    /\ history[2].move.color = "Black"
    /\ game.full_move_counter = from_fen(fen).value.full_move_counter + 1

\* ---------------------------------------------------------------- C12

\* every move valid_moves() returns is a move of the side to move, and a
\* make_move that fails carries no position
C12MovesOfTheSideToMove ==
    \A moves \in {valid_moves(game)} :
        /\ \A k \in 1..Len(moves) : moves[k].color = game.next_to_move
        /\ \A token \in Tokens :
               \A result \in {make_move(game, moves, token)} :
                   ~result.ok => DOMAIN result = {"ok"}

\* a successful make_move applies a move of the side to move and hands the move
\* to the other side; a failed one leaves the game as it was
C12TurnStep ==
    /\ history' # history =>
           /\ history'[Len(history')].move.color = game.next_to_move
           /\ game'.next_to_move = opposite(game.next_to_move)
           /\ game'.next_to_move # game.next_to_move
    /\ history' = history => game' = game

\* C12: every move in valid_moves() has the color of the side to move; every
\* successful make_move yields a position whose side to move is the opposite
\* color; a failed make_move yields no new position.
C12SidesAlternate == [][C12TurnStep]_vars /\ []C12MovesOfTheSideToMove

\* three moves made, the first and third by one side and the second by the
\* other, after which the second side is to move again
C12Witness ==
    /\ plies = 3
    /\ history[1].move.color = history[3].move.color
    /\ history[2].move.color = opposite(history[1].move.color)
    /\ game.next_to_move = history[2].move.color
    /\ last_result = "Ok"

\* ---------------------------------------------------------------- C13

\* the four castling flags of a position
castling_flags(position) ==
    <<position.white_can_castle_king_side, position.white_can_castle_queen_side,
      position.black_can_castle_king_side, position.black_can_castle_queen_side>>

\* C13: the four castling flags are left unchanged by every move, king moves
\* and captures of rooks included: in every position reached they equal the
\* flags of the starting position.
C13CastlingFlagsCarried == castling_flags(game) = castling_flags(from_fen(fen).value)

\* a king has moved and taken a rook, and the flags are those of the start text
C13Witness ==
    /\ plies >= 1
    /\ \E k \in 1..plies :
           /\ history[k].move.piece = "King"
           /\ history[k].move.takes = Some("Rook")
    /\ castling_flags(game) = <<TRUE, TRUE, TRUE, TRUE>>

\* ---------------------------------------------------------------- C14

\* the position holds exactly one king of the color
OneKing(position, color) ==
    Cardinality({square \in Squares :
                    piece_on(position, square) = Some(OccupiedSquare("King", color))}) = 1

\* in_check agrees with the rules of chess on a position, for both colors
CheckIsAttack(position) ==
    \A color \in Colors :
        OneKing(position, color) => (in_check(position, color) <=> KingAttacked(position, color))

\* C14: for a position with exactly one king of a color, in_check(color) is true
\* exactly when a piece of the other color attacks the king's square under the
\* geometry of chess (a pawn its two forward diagonals only, a knight its
\* L-shapes, a slider an unblocked ray, a king its neighbours), whichever side
\* is to move: checked on every reached position and on every position one
\* pseudo-legal move away from it.
C14InCheckIffKingAttacked ==
    /\ CheckIsAttack(game)
    /\ \A moves \in {pseudo_legal_moves(game, game.next_to_move)} :
           \A k \in 1..Len(moves) :
               \A after \in {make_valid_move(game, moves[k])} : CheckIsAttack(after)

\* the side to move is in check, and one pseudo-legal move of it leads to a
\* position where its king is attacked while the other side is to move
C14Witness ==
    /\ OneKing(game, game.next_to_move)
    /\ in_check(game, game.next_to_move)
    /\ \E k \in 1..Len(pseudo_legal_moves(game, game.next_to_move)) :
           \E after \in {make_valid_move(game, pseudo_legal_moves(game, game.next_to_move)[k])} :
               /\ after.next_to_move = opposite(game.next_to_move)
               /\ in_check(after, game.next_to_move)

\* ---------------------------------------------------------------- C15

\* the position after make_move of each token in turn (the position reached
\* when a token fails)
RECURSIVE after_moves(_, _)
after_moves(position, notations) ==
    IF notations = <<>> THEN position
    ELSE LET result == make_move(position, valid_moves(position), Head(notations))
         IN  IF result.ok THEN after_moves(result.value, Tail(notations)) ELSE position

\* 1. f3 e5 2. g4 Qh4 of test_pgn_to_game, from the standard position
FoolsMatePosition ==
    after_moves(from_fen(StandardFen).value,
                <<(<<"f", "3">>), (<<"e", "5">>), (<<"g", "4">>), (<<"Q", "h", "4">>)>>)

\* the king of the side to move is attacked and every pseudo-legal move of that
\* side leaves it attacked
Checkmated(position) ==
    /\ KingAttacked(position, position.next_to_move)
    /\ \A moves \in {pseudo_legal_moves(position, position.next_to_move)} :
           \A k \in 1..Len(moves) :
               KingAttacked(make_valid_move(position, moves[k]), position.next_to_move)

\* C15: in_mate() is true exactly when the side to move is in check and
\* valid_moves() is empty; it is true in the position after 1. f3 e5 2. g4 Qh4
\* from the standard position, and false in a stalemate and in a check that a
\* legal move answers.
C15MateIffCheckAndNoMove ==
    /\ in_mate(game) <=> Checkmated(game)
    /\ in_mate(game) <=> (in_check(game, game.next_to_move) /\ valid_moves(game) = <<>>)
    /\ FoolsMatePosition.full_move_counter = 3 /\ in_mate(FoolsMatePosition)
    /\ (fen = FoolsMateFen /\ plies = 1 /\ history[1].token = <<"Q", "h", "4">>) =>
           (game = FoolsMatePosition /\ in_mate(game))
    /\ (fen = StalemateFen) =>
           (valid_moves(game) = <<>> /\ ~in_check(game, "Black") /\ ~in_mate(game))

\* Qh4 played on the position after 1. f3 e5 2. g4: White is mated
C15Witness ==
    /\ fen = FoolsMateFen
    /\ plies = 1
    /\ history[1].token = <<"Q", "h", "4">>
    /\ in_mate(game)

\* the stalemate, where in_mate() is false although no move is valid
C15StalemateWitness ==
    /\ fen = StalemateFen
    /\ valid_moves(game) = <<>>
    /\ ~in_mate(game)

\* a check that a move answers: in_mate() is false
C15CheckWitness ==
    /\ in_check(game, game.next_to_move)
    /\ valid_moves(game) # <<>>
    /\ ~in_mate(game)

\* ---------------------------------------------------------------- C16

\* the text occurs in the message
Contains(message, text) ==
    \E k \in 0..(Len(message) - Len(text)) : SubSeq(message, k + 1, k + Len(text)) = text

\* the half-move tokens of a parsed game in the order of the record: each
\* entry's white slot, then its black slot
RecordTokens(pgn_game) ==
    LET slot(k) == IF k % 2 = 1
                   THEN pgn_game.moves[(k + 1) \div 2].white_move
                   ELSE pgn_game.moves[k \div 2].black_move
        filled == SelectSeq([k \in 1..(2 * Len(pgn_game.moves)) |-> k],
                            LAMBDA k : slot(k) # None)
    IN  [k \in 1..Len(filled) |->
            [token |-> unwrap(slot(filled[k])),
             number |-> pgn_game.moves[(filled[k] + 1) \div 2].number]]

\* the position a parsed game starts from: that of its FEN tag, else the standard one
StartOf(pgn_game) ==
    IF \E k \in 1..Len(pgn_game.tags) : pgn_game.tags[k][1] = <<"F", "E", "N">>
    THEN from_fen(pgn_game.tags[CHOOSE k \in 1..Len(pgn_game.tags) :
                                   pgn_game.tags[k][1] = <<"F", "E", "N">>][2]).value
    ELSE from_fen(StandardFen).value

\* the position after the first n tokens of the record
AfterTokens(pgn_game, n) ==
    after_moves(StartOf(pgn_game),
                [k \in 1..n |-> RecordTokens(pgn_game)[k].token])

\* the n-th token of the record is refused by the side to move after the first n - 1
Refused(pgn_game, n) ==
    \A position \in {AfterTokens(pgn_game, n - 1)} :
        ~make_move(position, valid_moves(position), RecordTokens(pgn_game)[n].token).ok

\* what the claim asks of the result of replaying one parsed game
ReplayedInOrder(pgn_game, result) ==
    LET record == RecordTokens(pgn_game)
        refused == {n \in 1..Len(record) : Refused(pgn_game, n)}
    IN  IF refused = {}
        THEN result.ok /\ result.value = AfterTokens(pgn_game, Len(record))
        ELSE LET first == CHOOSE n \in refused : \A other \in refused : n <= other
             IN  /\ ~result.ok
                 /\ DOMAIN result = {"ok", "message"}
                 /\ Contains(result.message, record[first].token)
                 /\ is_some(record[first].number) =>
                        Contains(result.message,
                                 <<"#">> \o to_string(unwrap(record[first].number)))

\* C16: new_from_pgn applies the half-move tokens of each parsed game in the
\* order of the record (white slot, then black slot) to whichever side is to
\* move, from the position of the FEN tag if there is one and from the standard
\* position otherwise; at the first token that fails it applies no later token
\* and the result of that game is an Err whose message contains the token and,
\* when the entry has one, the move number; the other games of the record keep
\* their own results.
C16ReplayInRecordOrder ==
    /\ Len(games) <= Len(pgn_games)
    /\ \A k \in 1..Len(games) : ReplayedInOrder(pgn_games[k], games[k])
    /\ (pc = "returned" /\ returned[1].ok) =>
           (returned[1].value = games /\ Len(games) = Len(pgn_games))
    /\ (pc = "returned" /\ returned[1].ok /\ pgn_text \in {FoolsMatePgn, BlackMovePgn}) =>
           (games[1].ok /\ games[1].value = FoolsMatePosition)

\* the record of two games has been replayed: the first game failed at its
\* second half-move, the second game was replayed to its end
C16Witness ==
    /\ pgn_text = TwoGamesPgn
    /\ pc = "returned"
    /\ Len(games) = 2
    /\ ~games[1].ok
    /\ Contains(games[1].message, <<"e", "4", " ", "(", "m", "o", "v", "e", " ", "#", "1", ")">>)
    /\ games[2].ok
    /\ games[2].value.next_to_move = "White"

\* ---------------------------------------------------------------- C17

\* the four result markers and the result each stands for
ResultMarkers ==
    {[text |-> <<"*">>, result |-> "Unknown"],
     [text |-> <<"1", "-", "0">>, result |-> "WhiteWins"],
     [text |-> <<"0", "-", "1">>, result |-> "BlackWins"],
     [text |-> <<"1", "/", "2", "-", "1", "/", "2">>, result |-> "Draw"]}

\* the text ends with a blank and the marker
EndsWith(text, marker) ==
    /\ Len(text) > Len(marker)
    /\ SubSeq(text, Len(text) - Len(marker), Len(text)) = <<" ">> \o marker

\* new_from_pgn has stopped: it returned or it panicked
Stopped == pc \in {"returned", "panic"}

\* C17: each of the result markers *, 1-0, 0-1 and 1/2-1/2 after the move text
\* is lexed and parsed, and ends the game with the result Unknown, WhiteWins,
\* BlackWins or Draw.
C17ResultMarkersEndTheGame ==
    \A marker \in ResultMarkers :
        (Stopped /\ EndsWith(pgn_text, marker.text)) =>
            /\ pc = "returned"
            /\ returned[1].ok
            /\ pgn_games # <<>>
            /\ pgn_games[Len(pgn_games)].result = marker.result

\* ---------------------------------------------------------------- C18

\* C18: a move entry without a move number keeps its tokens: parsing
\* e4e5 e8=Q# 1-0 gives one entry with number None, white move e4e5 and black
\* move e8=Q#, and replaying Qh4# 0-1 from the FEN with Black to move applies
\* Qh4, which gives the position of the fool's mate.
C18EntryWithoutNumberKeepsItsTokens ==
    /\ (Stopped /\ pgn_text = MoveWithoutNumberPgn) =>
           /\ pc = "returned"
           /\ Len(pgn_games) = 1
           /\ pgn_games[1].moves =
                  <<Move(None, Some(<<"e", "4", "e", "5">>), Some(<<"e", "8", "=", "Q", "#">>))>>
    /\ (Stopped /\ pgn_text = NoMoveNumberPgn) =>
           /\ pc = "returned"
           /\ returned[1].ok
           /\ Len(games) = 1
           /\ games[1].ok
           /\ games[1].value = FoolsMatePosition

\* ---------------------------------------------------------------- C19

\* the lexed tokens end without a result marker before the end of the input
EndsBeforeResultMarker ==
    /\ pc \notin {"idle", "lex"}
    /\ Len(tokens) >= 2
    /\ \A marker \in ResultMarkers :
           \A last \in {tokens[Len(tokens) - 1]} :
               ~(last.kind = "Symbol" /\ last.value = marker.text)
    /\ tokens[Len(tokens) - 1].kind # "Asterisk"

\* C19: a token stream that reaches the end of the input before a result
\* marker makes Parser::parse return an Err, with no games parsed so far
\* returned; the parser never panics by peeking past the last token.
C19EndOfInputIsAnError ==
    /\ pc # "panic"
    /\ (EndsBeforeResultMarker /\ pc = "returned") =>
           (~returned[1].ok /\ pgn_games = <<>> /\ games = <<>>)

\* ---------------------------------------------------------------- C20

\* the piece placement field of a FEN text: the text before its first blank
PlacementField(text) ==
    SubSeq(text, 1, (CHOOSE k \in 1..Len(text) :
                        text[k] = " " /\ \A other \in 1..(k - 1) : text[other] # " ") - 1)

\* the k-th of the groups the '/' characters divide a field into
Group(field, k) ==
    LET slashes == {i \in 1..Len(field) : field[i] = "/"}
        before(i) == Cardinality({j \in slashes : j < i})
        members == SelectSeq([i \in 1..Len(field) |-> i],
                             LAMBDA i : i \notin slashes /\ before(i) = k - 1)
    IN  [i \in 1..Len(members) |-> field[members[i]]]

GroupCount(field) == Cardinality({i \in 1..Len(field) : field[i] = "/"}) + 1

\* the squares a group stands for: a digit as many empty squares, a letter its piece
RECURSIVE GroupSquares(_)
GroupSquares(group) ==
    IF group = <<>> THEN <<>>
    ELSE (IF is_digit(Head(group))
          THEN [k \in 1..digit_value(Head(group)) |-> None]
          ELSE <<Some(occupancy_from_char(Head(group)).value)>>)
         \o GroupSquares(Tail(group))

\* the field has 8 groups of 8 squares each
EightRanksOfEight(field) ==
    /\ GroupCount(field) = 8
    /\ \A k \in 1..8 : Len(GroupSquares(Group(field, k))) = 8

\* C20: every Position that from_fen returns Ok for has exactly 64 squares, the
\* file-th square of the group of rank r standing at index (7 - r) * 8 + file;
\* a placement field whose digits and letters do not add up to 8 for each rank
\* (64 in all), such as a last rank ending in a digit that runs past the
\* board, is rejected and gives no board of another length.
C20BoardHasSixtyFourSquares ==
    (pc = "returned" /\ fen \in FenTexts) =>
        \A result \in {returned[1]} :
            \A field \in {PlacementField(fen)} :
                /\ ~EightRanksOfEight(field) => ~result.ok
                /\ result.ok =>
                       /\ Len(result.value.board) = 64
                       /\ \A rank \in 0..7 : \A file \in 0..7 :
                              result.value.board[(7 - rank) * 8 + file + 1]
                                  = GroupSquares(Group(field, 8 - rank))[file + 1]

\* ---------------------------------------------------------------- C21

\* tokens with an origin hint (a file, a rank, a square; fitting a piece that can
\* make the move, or no piece at all), each with the token the hint is removed from
HintPairs ==
    {<<<<"N", "b", "d", "2">>, <<"N", "d", "2">>>>,
     <<<<"N", "f", "d", "2">>, <<"N", "d", "2">>>>,
     <<<<"N", "1", "d", "2">>, <<"N", "d", "2">>>>,
     <<<<"N", "b", "1", "d", "2">>, <<"N", "d", "2">>>>,
     <<<<"N", "b", "d", "7">>, <<"N", "d", "7">>>>,
     <<<<"N", "f", "d", "7">>, <<"N", "d", "7">>>>,
     <<<<"N", "8", "d", "7">>, <<"N", "d", "7">>>>,
     <<<<"N", "b", "c", "3">>, <<"N", "c", "3">>>>,
     <<<<"N", "g", "c", "3">>, <<"N", "c", "3">>>>,
     <<<<"e", "2", "e", "3">>, <<"e", "3">>>>,
     <<<<"d", "e", "3">>, <<"e", "3">>>>,
     <<<<"R", "a", "d", "8">>, <<"R", "d", "8">>>>,
     <<<<"R", "h", "d", "8">>, <<"R", "d", "8">>>>,
     <<<<"R", "8", "d", "8">>, <<"R", "d", "8">>>>,
     <<<<"e", "5", "e", "6">>, <<"e", "6">>>>,
     <<<<"e", "5", "x", "f", "6">>, <<"e", "x", "f", "6">>>>,
     <<<<"5", "x", "f", "6">>, <<"x", "f", "6">>>>}

\* the position of the two knights with White to move
TwoKnightsWhiteFen == fen_text(TwoKnightsPlacement, "w", <<"K", "Q", "k", "q">>, <<"-">>)

\* C21: a token with an origin hint resolves exactly as the token without the
\* hint (the same move and position, or the same failure), and when two or more
\* valid moves have the token's piece, destination and capture flag the token
\* fails to resolve whatever hint it carries.
C21OriginHintIgnored ==
    \A moves \in {valid_moves(game)} :
        \A pair \in HintPairs :
            \A hinted \in {make_move(game, moves, pair[1])} :
                /\ hinted = make_move(game, moves, pair[2])
                /\ Cardinality(TokenMatches(moves, pair[2])) >= 2 => ~hinted.ok

\* in the position of the two knights Nd2 fits the knights of b1 and of f3, and
\* a make_move has failed there, Nbd2 and Nfd2 being among the tokens refused
C21Witness ==
    /\ fen = TwoKnightsWhiteFen
    /\ last_result = "Err"
    /\ \A moves \in {valid_moves(game)} :
           /\ {moves[k].from : k \in TokenMatches(moves, <<"N", "d", "2">>)}
                  = {Square(0, 1), Square(2, 5)}
           /\ ~make_move(game, moves, <<"N", "b", "d", "2">>).ok
           /\ ~make_move(game, moves, <<"N", "f", "d", "2">>).ok

\* a token with a hint that fits no piece has been played: Ngc3 moved the knight of b1
C21WrongHintWitness ==
    /\ fen = TwoKnightsWhiteFen
    /\ history # <<>>
    /\ history[1].token = <<"N", "g", "c", "3">>
    /\ history[1].move.from = Square(0, 1)

\* ---------------------------------------------------------------- C22

Sliders == {"Rook", "Bishop", "Queen"}

\* The rules of chess for a slider, stated without the move generator: the moves
\* of the piece on `from` are one onto each square it attacks (along its kind of
\* line, every square in between empty) that holds no piece of its color, taking
\* the piece that stands there.
SliderMoves(position, from) ==
    {ValidMove(unwrap(piece_on(position, from)).color, from, to,
               unwrap(piece_on(position, from)).piece,
               IF piece_on(position, to) = None THEN None
               ELSE Some(unwrap(piece_on(position, to)).piece),
               FALSE, None) :
        to \in {to \in Squares :
                   /\ Attacks(position, from, to)
                   /\ \/ piece_on(position, to) = None
                      \/ unwrap(piece_on(position, to)).color
                             # unwrap(piece_on(position, from)).color}}

\* C22: for every rook, bishop and queen of either color on the board, the moves
\* generated for it are exactly, and each once, the moves along its lines (rook
\* orthogonal, bishop diagonal, queen both) up to the first occupied square: that
\* square excluded when it holds a piece of the same color, included as a capture
\* of the piece on it when it holds one of the other color, and nothing beyond it.
C22SlidersStopAtFirstOccupiedSquare ==
    \A from \in Squares :
        (/\ piece_on(game, from) # None
         /\ unwrap(piece_on(game, from)).piece \in Sliders) =>
            \A moves \in {possible_moves_for_piece(game, unwrap(piece_on(game, from)).piece,
                                                   from, unwrap(piece_on(game, from)).color)} :
                /\ Range(moves) = SliderMoves(game, from)
                /\ Cardinality(Range(moves)) = Len(moves)

\* the board of test_queen_moves after Qxe5: the queen has taken the pawn its ray
\* stopped at, and from e5 its rays end at its own pawns on e7 and f4
C22Witness ==
    /\ fen = fen_text(QueenPlacement, "w", <<"K", "Q", "k", "q">>, <<"-">>)
    /\ plies = 1
    /\ last_move.piece = "Queen"
    /\ last_move.takes = Some("Pawn")
    /\ piece_on(game, Square(4, 4)) = Some(OccupiedSquare("Queen", "White"))
    /\ \A moves \in {possible_queen_moves(game, Square(4, 4), "White")} :
           /\ \A k \in 1..Len(moves) : moves[k].to \notin {Square(6, 4), Square(3, 5)}
           /\ \E k \in 1..Len(moves) : moves[k].to = Square(5, 4)

\* ---------------------------------------------------------------- C23

\* the direction a pawn of the color moves in
Forward(color) == IF color = "White" THEN 1 ELSE -1

\* the rank a pawn of the color starts on
HomeRank(color) == IF color = "White" THEN 1 ELSE 6

\* the square is on the board and empty
EmptySquare(position, rank, file) ==
    /\ rank \in 0..7
    /\ file \in 0..7
    /\ piece_on(position, Square(rank, file)) = None

\* C23: for every pawn of either color on the board, the generated moves hold a
\* one-square forward move exactly when the square ahead is empty, a two-square
\* forward move (which sets the passed square as en-passant target) exactly when
\* the pawn is on its home rank (index 1 for White, 6 for Black) and both squares
\* ahead are empty; every generated move on the pawn's file is one of these two
\* and takes nothing; every other generated move goes one file aside and one
\* rank forward, onto a piece of the other color or onto the en-passant target.
C23PawnPushes ==
    \A from \in Squares :
        (/\ piece_on(game, from) # None
         /\ unwrap(piece_on(game, from)).piece = "Pawn") =>
            \A color \in {unwrap(piece_on(game, from)).color} :
                \A moves \in {Range(possible_pawn_moves(game, from, color))} :
                    \A ahead \in {from.rank + Forward(color)} :
                        \A two_ahead \in {from.rank + 2 * Forward(color)} :
        /\ (\E m \in moves : m.to.file = from.file /\ m.to.rank = ahead)
               <=> EmptySquare(game, ahead, from.file)
        /\ (\E m \in moves : m.to.file = from.file /\ m.to.rank = two_ahead)
               <=> (/\ from.rank = HomeRank(color)
                    /\ EmptySquare(game, ahead, from.file)
                    /\ EmptySquare(game, two_ahead, from.file))
        /\ \A m \in moves :
               /\ m.from = from /\ m.piece = "Pawn" /\ m.color = color
               /\ m.to.rank \in 0..7 /\ m.to.file \in 0..7
               /\ m.to.file = from.file =>
                      /\ m.takes = None
                      /\ ~m.takes_en_passant
                      /\ \/ m.to.rank = ahead /\ m.en_passant_square = None
                         \/ /\ m.to.rank = two_ahead
                            /\ m.en_passant_square = Some(Square(ahead, from.file))
               /\ m.to.file # from.file =>
                      /\ Abs(m.to.file - from.file) = 1
                      /\ m.to.rank = ahead
                      /\ is_some(m.takes)
                      /\ \/ /\ piece_on(game, m.to) # None
                            /\ unwrap(piece_on(game, m.to)).color = opposite(color)
                         \/ game.en_passant_square = Some(m.to)

\* the board of test_generating_pawn_moves_with_black after Black's c5: the pawn
\* has made its double step from c7, the pawn on e7 is blocked by the pawn on e6,
\* and White's pawn on d2 may step once or twice while e2 and c3 may step once
C23Witness ==
    /\ fen = fen_text(PawnsPlacement, "b", <<"K", "Q", "k", "q">>, <<"-">>)
    /\ plies = 1
    /\ last_move.from = Square(6, 2)
    /\ last_move.to = Square(4, 2)
    /\ game.en_passant_square = Some(Square(5, 2))
    /\ possible_pawn_moves(game, Square(6, 4), "Black") = <<>>
    /\ Len(possible_pawn_moves(game, Square(1, 3), "White")) = 2
    /\ Len(possible_pawn_moves(game, Square(2, 2), "White")) = 1

\* ---------------------------------------------------------------- C24

\* the castling tokens, bare and with a check or mate marker
CastlingTokens ==
    {<<"O", "-", "O">>, <<"O", "-", "O", "-", "O">>,
     <<"O", "-", "O", "+">>, <<"O", "-", "O", "#">>,
     <<"O", "-", "O", "-", "O", "+">>, <<"O", "-", "O", "-", "O", "#">>}

\* the position with kings and rooks at home, White to move, all four flags set
CastlingReadyWhiteFen ==
    fen_text(CastlingReadyPlacement, "w", <<"K", "Q", "k", "q">>, <<"-">>)

\* C24: in every position, whatever its castling flags, each king move of
\* valid_moves() changes rank and file by at most one and changes no square but
\* its origin and destination (so it moves no rook), and make_move with a
\* castling token, bare or with a check or mate marker, returns Err.
C24CastlingNeverExecuted ==
    \A moves \in {valid_moves(game)} :
        /\ \A k \in 1..Len(moves) :
               moves[k].piece = "King" =>
                   \A after \in {make_valid_move(game, moves[k])} :
                       /\ Abs(moves[k].to.rank - moves[k].from.rank) <= 1
                       /\ Abs(moves[k].to.file - moves[k].from.file) <= 1
                       /\ \A square \in Squares \ {moves[k].from, moves[k].to} :
                              piece_on(after, square) = piece_on(game, square)
        /\ \A token \in CastlingTokens : ~make_move(game, moves, token).ok

\* White may castle on both sides by the rules of chess (flags set, the squares
\* between king and rooks empty, no check), the king's moves are those to d1 and
\* f1 only, and a make_move (the castling tokens among those refused) has failed
C24Witness ==
    /\ fen = CastlingReadyWhiteFen
    /\ last_result = "Err"
    /\ game.white_can_castle_king_side
    /\ game.white_can_castle_queen_side
    /\ \A file \in {1, 2, 3, 5, 6} : piece_on(game, Square(0, file)) = None
    /\ ~in_check(game, "White")
    /\ \A moves \in {valid_moves(game)} :
           /\ {moves[k].to : k \in {j \in 1..Len(moves) : moves[j].piece = "King"}}
                  = {Square(0, 3), Square(0, 5)}
           /\ ~make_move(game, moves, <<"O", "-", "O">>).ok
           /\ ~make_move(game, moves, <<"O", "-", "O", "-", "O">>).ok

\* Black's king has stepped from e8 to f8 with the flags set, the rook staying on h8
C24KingMoveWitness ==
    /\ fen = fen_text(CastlingReadyPlacement, "b", <<"K", "Q", "k", "q">>, <<"-">>)
    /\ plies = 1
    /\ last_move.piece = "King"
    /\ last_move.to = Square(7, 5)
    /\ piece_on(game, Square(7, 7)) = Some(OccupiedSquare("Rook", "Black"))
    /\ game.black_can_castle_king_side

\* ---------------------------------------------------------------- C25

\* the rank a pawn of the color would promote on
LastRank(color) == IF color = "White" THEN 7 ELSE 0

\* the number of pieces of the color other than pawns
NonPawns(position, color) ==
    Cardinality({square \in Squares :
                    /\ piece_on(position, square) # None
                    /\ unwrap(piece_on(position, square)).color = color
                    /\ unwrap(piece_on(position, square)).piece # "Pawn"})

\* the tokens that move a pawn onto the last rank, bare and with a promotion suffix
PromotionPairs ==
    {<<<<"e", "8", "=", "Q">>, <<"e", "8">>>>,
     <<<<"e", "8", "=", "N">>, <<"e", "8">>>>,
     <<<<"b", "8", "=", "Q">>, <<"b", "8">>>>,
     <<<<"b", "1", "=", "Q">>, <<"b", "1">>>>}

\* C25: a pawn that moves onto the last rank is still a pawn of its color in the
\* resulting position, for each valid move and for each token played, with a
\* promotion suffix or without (the suffix changes nothing in the result); a pawn
\* standing on the last rank has no generated move; and no move raises the
\* number of non-pawn pieces of a color, neither the move played since the start
\* nor any valid move of the position reached.
C25PromotionIsNoOp ==
    /\ \A moves \in {valid_moves(game)} :
           /\ \A k \in 1..Len(moves) :
                  \A after \in {make_valid_move(game, moves[k])} :
                      /\ \A color \in Colors :
                             NonPawns(after, color) <= NonPawns(game, color)
                      /\ (moves[k].piece = "Pawn"
                          /\ moves[k].to.rank = LastRank(moves[k].color)) =>
                             piece_on(after, moves[k].to)
                                 = Some(OccupiedSquare("Pawn", moves[k].color))
           /\ \A pair \in PromotionPairs :
                  make_move(game, moves, pair[1]) = make_move(game, moves, pair[2])
    /\ \A from \in Squares :
           \A color \in Colors :
               (/\ piece_on(game, from) = Some(OccupiedSquare("Pawn", color))
                /\ from.rank = LastRank(color)) =>
                   possible_pawn_moves(game, from, color) = <<>>
    /\ \A color \in Colors : NonPawns(game, color) <= NonPawns(from_fen(fen).value, color)
    /\ (history # <<>> /\ last_move.piece = "Pawn") =>
           piece_on(game, last_move.to) = Some(OccupiedSquare("Pawn", last_move.color))

\* on the board of test_queen_moves the token e8=Q has moved the pawn from e7 to
\* the last rank, where it stands as a white pawn, without a move of its own
C25Witness ==
    /\ fen = fen_text(QueenPlacement, "w", <<"K", "Q", "k", "q">>, <<"-">>)
    /\ plies = 1
    /\ history[1].token = <<"e", "8", "=", "Q">>
    /\ last_move.to = Square(7, 4)
    /\ piece_on(game, Square(7, 4)) = Some(OccupiedSquare("Pawn", "White"))
    /\ possible_pawn_moves(game, Square(7, 4), "White") = <<>>
    /\ NonPawns(game, "White") = 1

\* ---------------------------------------------------------------- C26

\* the board indexes make_valid_move reads or writes for a move: those of the
\* origin, of the destination and, for an en-passant capture, of the square one
\* rank behind the destination
IndexesTouched(m) ==
    {(7 - m.from.rank) * 8 + m.from.file, (7 - m.to.rank) * 8 + m.to.file}
    \cup (IF m.takes_en_passant
          THEN {(7 - (m.to.rank - Forward(m.color))) * 8 + m.to.file}
          ELSE {})

\* C26: for every position (each board of the family, each en-passant target the
\* FEN reader lets through, either side to move) and every move the generator
\* produces for either color, make_valid_move does not reach the panic "Cannot
\* take en-passant on the first or last rank", reads and writes board indexes
\* within 0..63 only, and returns a board of the same 64 squares.
C26EnPassantFaultUnreachable ==
    \A color \in Colors :
        \A moves \in {pseudo_legal_moves(game, color)} :
            \A k \in 1..Len(moves) :
                \A after \in {make_valid_move(game, moves[k])} :
                    /\ "panic" \notin DOMAIN after
                    /\ IndexesTouched(moves[k]) \subseteq 0..63
                    /\ Len(after.board) = Len(game.board)
                    /\ moves[k].takes_en_passant =>
                           /\ moves[k].to.rank - Forward(color) \in 0..7
                           /\ moves[k].to.rank \in 1..6 \/ moves[k].to.rank = LastRank(color)

\* the target set on rank 1 by the caller of Game::new: valid_moves() has applied,
\* in its filter, the capture en passant of Black's pawn on b2 onto c1 and lists it
C26BlackWitness ==
    /\ game.next_to_move = "Black"
    /\ game.en_passant_square = Some(Square(0, 2))
    /\ \E m \in Range(valid_moves(game)) :
           /\ m.takes_en_passant
           /\ m.from = Square(1, 1)
           /\ m.to = Square(0, 2)

\* an en-passant capture onto the last rank has been generated and applied: the
\* position was read with an en-passant target on rank 8 beside White's pawn on b7
C26Witness ==
    /\ plies = 1
    /\ from_fen(fen).value.en_passant_square = Some(last_move.to)
    /\ last_move.takes_en_passant
    /\ last_move.color = "White"
    /\ last_move.from = Square(6, 1)
    /\ last_move.to.rank = 7
    /\ piece_on(game, last_move.to) = Some(OccupiedSquare("Pawn", "White"))

\* ---------------------------------------------------------------- C27

\* C27: in every position of a game played by make_move from the standard
\* position the board holds exactly one white king and exactly one black king,
\* no move played has taken a king, and no move of valid_moves() takes one, so
\* the next position has its two kings too.
C27KingsPreserved ==
    /\ \A color \in Colors : OneKing(game, color)
    /\ \A k \in 1..plies : history[k].move.takes # Some("King")
    /\ \A moves \in {valid_moves(game)} :
           \A k \in 1..Len(moves) :
               /\ moves[k].takes # Some("King")
               /\ piece_on(game, moves[k].to) \notin
                      {Some(OccupiedSquare("King", color)) : color \in Colors}

\* after 1. e4 e5 2. Qh5 Nf6 3. Qxf7+ the queen stands beside Black's king and
\* gives check, and Black's only moves take the queen or step aside: White's
\* queen attacks e8, yet both kings are on the board
C27Witness ==
    /\ plies = 5
    /\ history[5].token = <<"Q", "x", "f", "7">>
    /\ in_check(game, "Black")
    /\ piece_on(game, Square(7, 4)) = Some(OccupiedSquare("King", "Black"))
    /\ \E m \in Range(valid_moves(game)) : m.piece = "King" /\ m.takes = Some("Queen")

\* ---------------------------------------------------------------- C28

\* the number of pieces of the color on the board
PieceCount(position, color) ==
    Cardinality({square \in Squares :
                    /\ piece_on(position, square) # None
                    /\ unwrap(piece_on(position, square)).color = color})

C28BlackWitness ==
    /\ plies = 5
    /\ game.next_to_move = "Black"
    /\ game.en_passant_square = Some(Square(2, 2))
    /\ \E m \in Range(valid_moves(game)) :
           m.takes_en_passant /\ m.from = Square(3, 3) /\ m.to = Square(2, 2)

\* ---------------------------------------------------------------- C29

\* the 64 texts a1 .. h8
SquareNames == {<<FILE_LABELS[file + 1], Digits[rank + 2]>> : file \in 0..7, rank \in 0..7}

\* C29: Square::from_notation accepts a two-character text exactly when it is
\* one of a1 .. h8; the square returned has the file of the letter (a = 0) and
\* the rank of the digit less one, both within 0..7; and for every square s of
\* the board from_notation(s.to_notation(FileAndRank)) is Ok(s).
C29FromNotationAcceptsTheSixtyFourNames ==
    (pc = "returned" /\ Len(square_notation) = 2) =>
        \A result \in {unwrap(returned)} :
            /\ result.ok <=> square_notation \in SquareNames
            /\ result.ok =>
                   /\ result.value.rank \in 0..7
                   /\ result.value.file \in 0..7
                   /\ FILE_LABELS[result.value.file + 1] = square_notation[1]
                   /\ Digits[result.value.rank + 2] = square_notation[2]
            /\ \A s \in Squares :
                   square_notation = to_notation(s, "FileAndRank") =>
                       result = [ok |-> TRUE, value |-> s]

\* ---------------------------------------------------------------- C30

\* the square whose piece a move takes: the destination, or for a capture en
\* passant the square of the passed pawn, beside the origin on the destination's file
TakenSquare(m) == IF m.takes_en_passant THEN Square(m.from.rank, m.to.file) ELSE m.to

\* the squares whose content differs between two positions
ChangedSquares(before, after) ==
    {square \in Squares : piece_on(after, square) # piece_on(before, square)}

\* C30: in every position of a game played by make_move from the standard
\* position and for every move m of valid_moves(): the origin holds (m.piece,
\* m.color) and the destination no piece of m.color; m.takes is Some(p) exactly
\* when applying m removes one piece of the other color, which has type p and
\* stood on the destination (for a capture en passant: the passed pawn); the
\* other color has one piece fewer when m.takes is Some and as many otherwise,
\* the mover as many as before; and no square changes other than the origin, the
\* destination and, for a capture en passant, the passed pawn's square.
C30CaptureBookkeeping ==
    \A moves \in {valid_moves(game)} :
        \A k \in 1..Len(moves) :
            \A m \in {moves[k]} :
                \A after \in {make_valid_move(game, m)} :
                    /\ "panic" \notin DOMAIN after
                    /\ m.color = game.next_to_move
                    /\ piece_on(game, m.from) = Some(OccupiedSquare(m.piece, m.color))
                    /\ \A found \in {piece_on(game, m.to)} :
                           found = None \/ unwrap(found).color # m.color
                    /\ \A changed \in {ChangedSquares(game, after)} :
                           \A removed \in {{square \in changed :
                                              /\ piece_on(game, square) # None
                                              /\ unwrap(piece_on(game, square)).color
                                                     = opposite(m.color)}} :
                               /\ changed \subseteq {m.from, m.to}
                                      \cup (IF m.takes_en_passant THEN {TakenSquare(m)} ELSE {})
                               /\ removed = (IF is_some(m.takes) THEN {TakenSquare(m)} ELSE {})
                               /\ is_some(m.takes) =>
                                      unwrap(piece_on(game, TakenSquare(m))).piece
                                          = unwrap(m.takes)
                    /\ piece_on(after, m.from) = None
                    /\ piece_on(after, m.to) = Some(OccupiedSquare(m.piece, m.color))
                    /\ PieceCount(after, opposite(m.color))
                           = PieceCount(game, opposite(m.color))
                                 - (IF is_some(m.takes) THEN 1 ELSE 0)
                    /\ PieceCount(after, m.color) = PieceCount(game, m.color)

\* after 1. e4 d5 2. exd5 White's pawn has taken a pawn, Black has fifteen
\* pieces left, and Black's queen can take the pawn back on d5
C30Witness ==
    /\ plies = 3
    /\ history[3].token = <<"e", "x", "d", "5">>
    /\ last_move.takes = Some("Pawn")
    /\ PieceCount(game, "Black") = 15
    /\ PieceCount(game, "White") = 16
    /\ \E m \in Range(valid_moves(game)) :
           m.piece = "Queen" /\ m.to = Square(4, 3) /\ m.takes = Some("Pawn")

====
